---- MODULE Spec2Model ----
(***************************************************************************)
(* The Clawget client library (src/src/index.ts) as a state machine: one   *)
(* client object, one operation in flight at a time, every HTTP exchange   *)
(* recorded in `issued`, and the backend as an environment that answers    *)
(* each exchange with a transport failure, an unparsable body or a status  *)
(* and a JSON body.                                                        *)
(*                                                                         *)
(* On top of it, the two clawget command-line programs of the repository   *)
(* (src/src/cli.ts and src/unnamed/part_001) as processes: one invocation  *)
(* at a time, with its environment variable, the config file, what it has  *)
(* written to standard output and standard error, what it has read from    *)
(* standard input, and its exit code (specification CliSpec).              *)
(***************************************************************************)
EXTENDS Integers, Sequences, FiniteSets, TLC

(***************************************************************************)
(* JavaScript values.  Every value is a tagged record so that values of    *)
(* different JavaScript types can be compared.  A property that is absent  *)
(* from an object is a key outside the object's domain.                    *)
(***************************************************************************)
Undefined == [t |-> "undefined"]

Null == [t |-> "null"]

Str(s) == [t |-> "string", v |-> s]

Num(n) == [t |-> "number", v |-> n]

Bool(b) == [t |-> "boolean", v |-> b]

Arr(s) == [t |-> "array", v |-> s]

Obj(f) == [t |-> "object", v |-> f]

EmptyObj == Obj([k \in {} |-> Undefined])

\* Marks a property left out when an object literal is built with MkObj.
Absent == [t |-> "absent"]

MkObj(f) == Obj([k \in {x \in DOMAIN f : f[x] # Absent} |-> f[k]])

\* JavaScript truthiness (ToBoolean).
Truthy(x) ==
    CASE x.t = "undefined" -> FALSE
      [] x.t = "null"      -> FALSE
      [] x.t = "string"    -> x.v # ""
      [] x.t = "number"    -> x.v # 0
      [] x.t = "boolean"   -> x.v
      [] OTHER             -> TRUE

IsNullish(x) == x.t \in {"undefined", "null"}

\* x.k for a value x that is not null or undefined (reading a property of
\* null or undefined throws a TypeError, which the callers model).
Get(x, k) ==
    IF x.t = "object" /\ k \in DOMAIN x.v THEN x.v[k] ELSE Undefined

\* a || b
Or(a, b) == IF Truthy(a) THEN a ELSE b

\* { ...a, ...b } for objects a and b.
Spread(a, b) ==
    Obj([k \in DOMAIN a.v \cup DOMAIN b.v |->
            IF k \in DOMAIN b.v THEN b.v[k] ELSE a.v[k]])

(***************************************************************************)
(* Errors and outcomes of a call.                                          *)
(***************************************************************************)
\* new ClawgetError(message, statusCode, response)
ClawgetError(message, statusCode, response) ==
    [name |-> "ClawgetError", message |-> message,
     statusCode |-> statusCode, response |-> response]

\* A built-in Error (TypeError, SyntaxError): no statusCode, no response.
JsError(name, message) ==
    [name |-> name, message |-> message,
     statusCode |-> Undefined, response |-> Undefined]

NullReadError == JsError("TypeError", Str("Cannot read properties of null"))

\* An Error that carries a system error code in its `code` property, as the
\* failures of DNS resolution and of a timed-out connection do.
SystemError(name, message, code) ==
    [name |-> name, message |-> message, statusCode |-> Undefined,
     response |-> Undefined, code |-> code]

NoOutcome == [kind |-> "none", value |-> Undefined, error |-> Undefined]

Pending == [kind |-> "pending", value |-> Undefined, error |-> Undefined]

Returned(v) == [kind |-> "returned", value |-> v, error |-> Undefined]

Threw(e) == [kind |-> "threw", value |-> Undefined, error |-> e]

(***************************************************************************)
(* What fetch() and response.json() can do.                                *)
(***************************************************************************)
\* fetch() rejects: a transport failure.
Rejected(e) ==
    [kind |-> "rejected", status |-> 0, parsed |-> FALSE, body |-> Undefined,
     error |-> e]

\* fetch() resolves with a status, response.json() rejects with a SyntaxError.
Unparsable(status, e) ==
    [kind |-> "response", status |-> status, parsed |-> FALSE,
     body |-> Undefined, error |-> e]

\* fetch() resolves with a status, response.json() resolves with a JSON value.
Answered(status, body) ==
    [kind |-> "response", status |-> status, parsed |-> TRUE, body |-> body,
     error |-> Undefined]

NoFetch ==
    [kind |-> "none", status |-> 0, parsed |-> FALSE, body |-> Undefined,
     error |-> Undefined]

\* response.ok
ResponseOk(status) == status >= 200 /\ status <= 299

(***************************************************************************)
(* Bounds of the model.                                                    *)
(***************************************************************************)
\* Longest array (listings, categories, purchases) a response body carries.
MaxItems == 2

SeqsUpTo(S, n) == UNION {[1..m -> S] : m \in 0..n}

(***************************************************************************)
(* Clawget.constructor                                                     *)
(***************************************************************************)
DefaultBaseUrl == Str("https://www.clawget.io/api")

NoClient == [t |-> "none"]

\* Mutant of ApiKeyMissing: only a missing key is refused, '' is accepted.
ApiKeyMissing_OnlyUndefined(apiKey) == apiKey = Undefined

\* if (!this.apiKey)
ApiKeyMissing(apiKey) == ~Truthy(apiKey)

\* The fields the constructor assigns from its config.
NewClient(config) ==
    [t |-> "client",
     apiKey |-> Get(config, "apiKey"),
     baseUrl |-> Or(Get(config, "baseUrl"), DefaultBaseUrl),
     agentId |-> Get(config, "agentId")]

\* The outcome of `new Clawget(config)`.
ConstructResult(config) ==
    IF ApiKeyMissing(Get(config, "apiKey"))
    THEN Threw(ClawgetError(Str("API key is required"), Undefined, Undefined))
    ELSE Returned(Undefined)

(***************************************************************************)
(* Clawget.request: the one HTTP primitive of the instance operations.     *)
(***************************************************************************)
\* The headers request() sends: the two defaults, the caller's headers
\* assigned over them, then the agent id when the client has one.
RequestHeaders(apiKey, agentId, optHeaders) ==
    LET defaults == ("Content-Type" :> Str("application/json"))
                        @@ ("x-api-key" :> apiKey)
        merged == IF Truthy(optHeaders)
                  THEN Spread(Obj(defaults), optHeaders).v
                  ELSE defaults
    IN  IF Truthy(agentId) THEN ("x-agent-id" :> agentId) @@ merged ELSE merged

\* One call of fetch(url, {...options, headers}) made by request().
Request(c, method, path, body) ==
    [method |-> method, url |-> c.baseUrl.v \o path,
     headers |-> RequestHeaders(c.apiKey, c.agentId, Undefined),
     body |-> body]

\* Mutant of ErrorMessage: `message` is preferred to `error`.
ErrorMessage_MessageFirst(data) ==
    Or(Or(Get(data, "message"), Get(data, "error")), Str("Request failed"))

\* data.error || data.message || 'Request failed'
ErrorMessage(data) ==
    Or(Or(Get(data, "error"), Get(data, "message")), Str("Request failed"))

\* Mutant of CatchInRequest: the underlying failure's message is dropped.
CatchInRequest_MessageDropped(e) ==
    IF e.name = "ClawgetError"
    THEN e
    ELSE ClawgetError(Str("Unknown error occurred"), Undefined, Undefined)

\* The catch block of request(): a ClawgetError is rethrown as it is, any
\* other Error is wrapped with its message and no status.  (Every failure
\* fetch() and response.json() produce is an Error instance.)
CatchInRequest(e) ==
    IF e.name = "ClawgetError"
    THEN e
    ELSE ClawgetError(e.message, Undefined, Undefined)

\* The outcome of request() once fetch() has settled with f.
RequestResult(f) ==
    IF f.kind = "rejected" \/ ~f.parsed
    THEN Threw(CatchInRequest(f.error))
    ELSE IF ~ResponseOk(f.status)
    THEN IF IsNullish(f.body)
         THEN Threw(CatchInRequest(NullReadError))
         ELSE Threw(CatchInRequest(
                  ClawgetError(ErrorMessage(f.body), Num(f.status), f.body)))
    ELSE Returned(f.body)

(***************************************************************************)
(* The instance operations that make one request() call and map its        *)
(* result.                                                                 *)
(***************************************************************************)
SimpleOps ==
    {"souls.list", "souls.get", "souls.buy", "souls.create",
     "skills.list", "skills.buy", "skills.download", "skills.get",
     "skills.featured", "skills.free",
     "wallet.balance", "wallet.deposit", "wallet.withdraw",
     "wallet.withdrawals", "wallet.donate", "wallet.donationStats",
     "purchases.list", "categories.list",
     "agent.me", "agent.status", "agent.getProfile", "agent.updateProfile",
     "agent.getPublicProfile",
     "reviews.list", "reviews.create", "licenses.validate"}

Method(op) ==
    CASE op \in {"souls.buy", "souls.create", "skills.buy", "wallet.withdraw",
                 "wallet.donate", "reviews.create", "licenses.validate"}
                                     -> "POST"
      [] op = "agent.updateProfile"  -> "PUT"
      [] OTHER                       -> "GET"

\* The endpoint of each operation; <...> stands for the caller's argument.
Endpoint(op) ==
    CASE op = "souls.list"             -> "/souls?<params>"
      [] op = "souls.get"              -> "/v1/souls/<slug>"
      [] op = "souls.buy"              -> "/v1/souls/buy"
      [] op = "souls.create"           -> "/v1/souls/create"
      [] op = "skills.list"            -> "/skills?<params>"
      [] op = "skills.buy"             -> "/skills/buy"
      [] op = "skills.download"        -> "/skills/<skillId>/download"
      [] op = "skills.get"             -> "/listings/<idOrSlug>"
      [] op = "skills.featured"        -> "/skills/featured?limit=<limit>"
      [] op = "skills.free"            -> "/skills/free?limit=<limit>"
      [] op = "wallet.balance"         -> "/wallet/balance"
      [] op = "wallet.deposit"         -> "/wallet/deposit"
      [] op = "wallet.withdraw"        -> "/wallet/withdraw"
      [] op = "wallet.withdrawals"     -> "/wallet/withdraw"
      [] op = "wallet.donate"          -> "/v1/donate"
      [] op = "wallet.donationStats"   -> "/v1/donate"
      [] op = "purchases.list"         -> "/purchases?<params>"
      [] op = "categories.list"        -> "/categories"
      [] op = "agent.me"               -> "/v1/agents/me"
      [] op = "agent.status"           -> "/v1/agents/status"
      [] op = "agent.getProfile"       -> "/v1/agents/profile"
      [] op = "agent.updateProfile"    -> "/v1/agents/profile"
      [] op = "agent.getPublicProfile" -> "/v1/agents/<agentId>/profile"
      [] op = "reviews.list"           -> "/listings/<skillId>/reviews"
      [] op = "reviews.create"         -> "/reviews"
      [] op = "licenses.validate"      -> "/licenses/validate"

\* response.k, which throws a TypeError when the response is null.
ReadField(response, k) ==
    IF IsNullish(response)
    THEN Threw(NullReadError)
    ELSE Returned(Get(response, k))

DefaultPagination ==
    Obj([page |-> Num(1), limit |-> Num(10), total |-> Num(0),
         totalPages |-> Num(0), hasMore |-> Bool(FALSE)])

\* Mutant of SkillsListResult: the {success, data} envelope is not unwrapped.
SkillsListResult_NoUnwrap(response) ==
    IF IsNullish(response)
    THEN Threw(NullReadError)
    ELSE Returned(Obj([skills |-> Or(Get(response, "listings"), Arr(<<>>)),
                       pagination |->
                           Or(Get(response, "pagination"), DefaultPagination)]))

\* skills.list: const data = response.data || response, then the two
\* defaults.
SkillsListResult(response) ==
    IF IsNullish(response)
    THEN Threw(NullReadError)
    ELSE LET data == Or(Get(response, "data"), response)
         IN  Returned(Obj([skills |-> Or(Get(data, "listings"), Arr(<<>>)),
                           pagination |->
                               Or(Get(data, "pagination"), DefaultPagination)]))

\* wallet.deposit: { ...response, chain: response.chain || 'TRON',
\* currency: 'USDT' }
WalletDepositResult(response) ==
    IF IsNullish(response)
    THEN Threw(NullReadError)
    ELSE Returned(Spread(response,
                         Obj([chain |-> Or(Get(response, "chain"), Str("TRON")),
                              currency |-> Str("USDT")])))

\* purchases.list: return response
PurchasesListResult(response) == Returned(response)

\* categories.list: return response
CategoriesListResult(response) == Returned(response)

\* What each operation does with the body request() returned.
Finish(op, response) ==
    CASE op = "skills.list"      -> SkillsListResult(response)
      [] op = "skills.get"       -> ReadField(response, "data")
      [] op = "skills.featured"  -> ReadField(response, "listings")
      [] op = "skills.free"      -> ReadField(response, "skills")
      [] op = "wallet.deposit"   -> WalletDepositResult(response)
      [] op = "purchases.list"   -> PurchasesListResult(response)
      [] op = "categories.list"  -> CategoriesListResult(response)
      [] op = "agent.me"         -> ReadField(response, "agent")
      [] op \in {"agent.getProfile", "agent.updateProfile",
                 "agent.getPublicProfile"}
                                 -> ReadField(response, "profile")
      [] op = "reviews.create"   -> ReadField(response, "review")
      [] OTHER                   -> Returned(response)

\* The outcome of an operation whose request() call settled with f.
OperationResult(op, f) ==
    LET r == RequestResult(f)
    IN  IF r.kind = "returned" THEN Finish(op, r.value) ELSE r

(***************************************************************************)
(* skills.create                                                           *)
(***************************************************************************)
\* String.prototype.toLowerCase on the strings the model uses.
ToLowerCase(s) ==
    CASE s = "Skills"       -> "skills"
      [] s = "SKILLS"       -> "skills"
      [] s = "skills"       -> "skills"
      [] s = "Agent Skills" -> "agent skills"
      [] s = "Data"         -> "data"
      [] s = "DATA"         -> "data"
      [] s = "data"         -> "data"
      [] s = "data-sets"    -> "data-sets"
      [] s = "Data-Sets"    -> "data-sets"
      [] s = "misc"         -> "misc"
      [] s = "unknown"      -> "unknown"
      [] s = ""             -> ""

\* Mutant of CategoryMatches: the slug too is compared ignoring letter case.
CategoryMatches_SlugIgnoresCase(c, category) ==
    \/ ToLowerCase(Get(c, "slug").v) = ToLowerCase(Or(category, Str("")).v)
    \/ ToLowerCase(Get(c, "name").v) = ToLowerCase(Or(category, Str("")).v)

\* The predicate of categories.find(): c.slug === options.category ||
\* c.name.toLowerCase() === (options.category || '').toLowerCase()
CategoryMatches(c, category) ==
    \/ Get(c, "slug") = category
    \/ ToLowerCase(Get(c, "name").v) = ToLowerCase(Or(category, Str("")).v)

\* Mutant of FindCategory: with no match the first category is taken.
FindCategory_FirstWhenNoMatch(categories, category) ==
    LET hits == {i \in DOMAIN categories :
                    \/ Get(categories[i], "slug") = category
                    \/ ToLowerCase(Get(categories[i], "name").v)
                           = ToLowerCase(Or(category, Str("")).v)}
    IN  IF hits = {}
        THEN IF categories = <<>> THEN Undefined ELSE categories[1]
        ELSE categories[CHOOSE i \in hits : \A j \in hits : i <= j]

\* Array.prototype.find: the first element that satisfies the predicate,
\* undefined when there is none.
FindCategory(categories, category) ==
    LET hits == {i \in DOMAIN categories :
                    CategoryMatches(categories[i], category)}
    IN  IF hits = {}
        THEN Undefined
        ELSE categories[CHOOSE i \in hits : \A j \in hits : i <= j]

\* categoriesResponse.data?.categories || []
LookedUpCategories(response) ==
    LET data == Get(response, "data")
    IN  Or(IF IsNullish(data) THEN Undefined ELSE Get(data, "categories"),
           Arr(<<>>))

\* Mutant of NeedsLookup: the category name is looked up even when a
\* categoryId is given.
NeedsLookup_WheneverNamed(options) == Truthy(Get(options, "category"))

\* if (!categoryId && options.category): the lookup is needed.
NeedsLookup(options) ==
    ~Truthy(Get(options, "categoryId")) /\ Truthy(Get(options, "category"))

\* The body of POST /skills.  (JSON.stringify drops the undefined fields.)
CreateBody(options, categoryId) ==
    Obj([title |-> Get(options, "name"),
         categoryId |-> categoryId,
         currency |-> Or(Get(options, "currency"), Str("USDC"))])

\* What skills.create does once the lookup's request() returned `response`:
\* the id of the category found, or the error it throws.
ResolveCategory(options, response) ==
    IF IsNullish(response)
    THEN Threw(NullReadError)
    ELSE LET category == FindCategory(LookedUpCategories(response).v,
                                      Get(options, "category"))
         IN  IF Truthy(category)
             THEN IF Truthy(Get(category, "id"))
                  THEN Returned(Get(category, "id"))
                  ELSE Threw(ClawgetError(
                           Str("Either categoryId or category name is required"),
                           Undefined, Undefined))
             ELSE Threw(ClawgetError(
                      Str("Category not found: " \o Get(options, "category").v),
                      Undefined, Undefined))

(***************************************************************************)
(* Clawget.register (static; makes its own fetch call, no try/catch).      *)
(***************************************************************************)
RegisterRequest(options, baseUrl) ==
    [method |-> "POST", url |-> baseUrl.v \o "/v1/agents/register",
     headers |-> ("Content-Type" :> Str("application/json")),
     body |-> Obj([agentId |-> Get(options, "agentId"),
                   name |-> Get(options, "name"),
                   platform |-> Or(Get(options, "platform"), Str("sdk"))])]

\* Mutant of MapRegistration: the nested fields are read in camelCase.
MapRegistration_CamelCase(rawData) ==
    LET agent == Get(rawData, "agent")
        wallet == Get(rawData, "wallet")
    IN  Obj([apiKey |-> Get(agent, "apiKey"),
             agentId |-> Get(agent, "id"),
             depositAddress |-> Get(wallet, "depositAddress"),
             chain |-> Get(wallet, "chain"),
             currency |-> Get(wallet, "currency"),
             message |-> Get(rawData, "message")])

\* The nested backend shape mapped to RegisterAgentResponse.
MapRegistration(rawData) ==
    LET agent == Get(rawData, "agent")
        wallet == Get(rawData, "wallet")
    IN  Obj([apiKey |-> Get(agent, "api_key"),
             agentId |-> Get(agent, "id"),
             depositAddress |-> Get(wallet, "deposit_address"),
             chain |-> Get(wallet, "deposit_chain"),
             currency |-> Get(wallet, "deposit_token"),
             message |-> Get(rawData, "message")])

\* if (rawData.agent && rawData.wallet)
IsNestedRegistration(rawData) ==
    Truthy(Get(rawData, "agent")) /\ Truthy(Get(rawData, "wallet"))

\* The outcome of Clawget.register once fetch() has settled with f.
RegisterResult(f) ==
    IF f.kind = "rejected" \/ ~f.parsed
    THEN Threw(f.error)
    ELSE IF IsNullish(f.body)
    THEN Threw(NullReadError)
    ELSE IF ~ResponseOk(f.status)
    THEN Threw(ClawgetError(Or(Get(f.body, "error"), Str("Registration failed")),
                            Num(f.status), f.body))
    ELSE IF IsNestedRegistration(f.body)
    THEN Returned(MapRegistration(f.body))
    ELSE Returned(f.body)

(***************************************************************************)
(* skills.activate and skills.uploadPackage: instance operations that make *)
(* their own fetch call, outside request() and with no try/catch.          *)
(***************************************************************************)
DirectOps == {"skills.activate", "skills.uploadPackage"}

\* The fetch() call of a direct operation: activate sends the license key
\* and no API key, uploadPackage a form with the API key.
DirectRequest(c, op) ==
    IF op = "skills.activate"
    THEN [method |-> "POST", url |-> c.baseUrl.v \o "/licenses/activate",
          headers |-> ("Content-Type" :> Str("application/json"))
                          @@ ("x-license-key" :> Str("<licenseKey>")),
          body |-> Obj([deviceId |-> Str("<deviceId>"),
                        deviceInfo |-> Undefined])]
    ELSE [method |-> "POST", url |-> c.baseUrl.v \o "/skills/upload",
          headers |-> IF Truthy(c.agentId)
                      THEN ("x-api-key" :> c.apiKey)
                               @@ ("x-agent-id" :> c.agentId)
                      ELSE ("x-api-key" :> c.apiKey),
          body |-> Str("<formData>")]

\* The outcome of a direct operation once fetch() has settled with f:
\* data.error of a null body is a TypeError, and a 2xx body is returned
\* as it is.
DirectResult(op, f) ==
    IF f.kind = "rejected" \/ ~f.parsed
    THEN Threw(f.error)
    ELSE IF ResponseOk(f.status)
    THEN Returned(f.body)
    ELSE IF IsNullish(f.body)
    THEN Threw(NullReadError)
    ELSE Threw(ClawgetError(
             Or(Get(f.body, "error"),
                IF op = "skills.activate"
                THEN Str("Activation failed")
                ELSE Str("Upload failed")),
             Num(f.status), f.body))

(***************************************************************************)
(* The environment: what callers pass and what the backend answers.        *)
(***************************************************************************)
\* The configs `new Clawget(config)` is called with: apiKey missing, empty
\* or set; baseUrl and agentId optional.
Configs ==
    {MkObj([apiKey |-> k, baseUrl |-> b, agentId |-> a]) :
        k \in {Absent, Str(""), Str("key-A"), Str("key-B")},
        b \in {Absent, Str("http://localhost:3000/api")},
        a \in {Absent, Str("agent-1")}}

TransportErrors ==
    {JsError("TypeError", Str("fetch failed")),
     JsError("TypeError", Str("getaddrinfo ENOTFOUND www.clawget.io")),
     SystemError("FetchError", Str("getaddrinfo ENOTFOUND clawget.io"),
                 Str("ENOTFOUND")),
     SystemError("FetchError", Str("network timeout"), Str("ETIMEDOUT"))}

ParseErrors ==
    {JsError("SyntaxError", Str("Unexpected token < in JSON at position 0"))}

Statuses == {200, 201, 401, 402}

\* Bodies a backend sends with an error status (any body can come with any
\* status).
ErrorBodies ==
    {EmptyObj,
     Obj([error |-> Str("insufficient balance")]),
     Obj([error |-> Str("Payment failed: insufficient balance")]),
     Obj([message |-> Str("Not found")]),
     Obj([error |-> Str("Unauthorized"), message |-> Str("Invalid API key"),
          code |-> Str("E401")]),
     Obj([error |-> Str(""), message |-> Str("Bad request")]),
     Obj([error |-> Null]),
     Null}

\* A payload as the backend sends it bare, and wrapped in {success, data}.
Enveloped(payload) == Obj([success |-> Bool(TRUE), data |-> payload])

BothShapes(payloads) == payloads \cup {Enveloped(p) : p \in payloads}

SkillPool == {Obj([id |-> Str("skill-1")]), Obj([id |-> Str("skill-2")])}

FullPagination ==
    Obj([page |-> Num(2), limit |-> Num(5), total |-> Num(7),
         totalPages |-> Num(2), hasMore |-> Bool(FALSE)])

PaginationOptions ==
    {Absent, Null, EmptyObj, Obj([page |-> Num(2), total |-> Num(7)]),
     FullPagination}

ListingPayloads ==
    {MkObj([listings |-> l, pagination |-> p]) :
        l \in {Absent, Null} \cup {Arr(q) : q \in SeqsUpTo(SkillPool, MaxItems)},
        p \in PaginationOptions}

PurchasePool == {Obj([id |-> Str("purchase-1"), licenseKey |-> Null])}

PurchasePayloads ==
    {MkObj([purchases |-> l, pagination |-> p]) :
        l \in {Absent} \cup {Arr(q) : q \in SeqsUpTo(PurchasePool, MaxItems)},
        p \in {Absent, FullPagination}}

CategoryPool ==
    {Obj([id |-> Str("cat-1"), name |-> Str("Agent Skills"),
          slug |-> Str("skills")]),
     Obj([id |-> Str("cat-2"), name |-> Str("Data"), slug |-> Str("data-sets")]),
     Obj([id |-> Str("cat-3"), name |-> Str("skills"), slug |-> Str("misc")])}

CategoryPayloads ==
    {MkObj([categories |-> l]) :
        l \in {Absent} \cup {Arr(q) : q \in SeqsUpTo(CategoryPool, MaxItems)}}

DepositPayloads ==
    {MkObj([address |-> Str("TU56od9yEs7T"), chain |-> c, currency |-> u,
            balance |-> b]) :
        c \in {Absent, Str(""), Str("TRON"), Str("ETH")},
        u \in {Absent, Str("USDT"), Str("USDC")},
        b \in {Absent, Str("5.00")}}

GenericPayloads ==
    {Obj([id |-> Str("x-1")]),
     Obj([data |-> Obj([id |-> Str("x-1")])]),
     Obj([listings |-> Arr(<<>>), skills |-> Arr(<<>>)]),
     Obj([agent |-> Obj([id |-> Str("agent-1")]),
          profile |-> Obj([id |-> Str("agent-1")]),
          review |-> Obj([id |-> Str("review-1")])])}

NestedRegistrations ==
    {MkObj([agent |-> Obj([id |-> Str("agent-1"), api_key |-> k]),
            wallet |-> w, message |-> m]) :
        k \in {Str("key-A"), Str("key-B")},
        w \in {Absent,
               Obj([deposit_address |-> Str("TU56od9yEs7T"),
                    deposit_chain |-> Str("Tron"),
                    deposit_token |-> Str("USDT")])},
        m \in {Absent, Str("Agent registered")}}

FlatRegistrations ==
    {MkObj([apiKey |-> k, agentId |-> Str("agent-1"),
            depositAddress |-> Str("TU56od9yEs7T"), chain |-> Str("Tron"),
            currency |-> Str("USDT"), message |-> Str("Agent registered"),
            claimUrl |-> u]) :
        k \in {Str("key-A"), Str("key-B")},
        u \in {Absent, Str("https://www.clawget.io/claim/1")}}

\* The JSON bodies the backend may answer an operation with.
Bodies(op) ==
    ErrorBodies \cup
    CASE op = "skills.list"         -> BothShapes(ListingPayloads)
      [] op = "purchases.list"      -> BothShapes(PurchasePayloads)
      [] op = "categories.list"     -> BothShapes(CategoryPayloads)
      [] op = "wallet.deposit"      -> DepositPayloads
      [] op = "register"            -> NestedRegistrations \cup FlatRegistrations
      [] OTHER                      -> GenericPayloads

\* Every way one fetch() of an operation can settle.
FetchResults(op) ==
    {Rejected(e) : e \in TransportErrors}
    \cup {Unparsable(s, e) : s \in Statuses, e \in ParseErrors}
    \cup {Answered(s, b) : s \in Statuses, b \in Bodies(op)}

\* The headers a caller of request() passes in options.headers: none, one
\* that replaces a default, one for the API key, one for the agent id.
CallerHeaders ==
    {Undefined,
     Obj("Content-Type" :> Str("text/plain")),
     Obj("x-api-key" :> Str("key-C")),
     Obj("x-agent-id" :> Str("agent-2"))}

CreateOptions ==
    {MkObj([name |-> Str("my-skill"), categoryId |-> i, category |-> c]) :
        i \in {Absent, Str("cat-9")},
        c \in {Absent, Str(""), Str("skills"), Str("Skills"), Str("DATA"),
               Str("Data-Sets"), Str("unknown")}}

RegisterOptions ==
    {MkObj([name |-> n, platform |-> p]) :
        n \in {Absent, Str("my-agent")}, p \in {Absent, Str("cli")}}

(***************************************************************************)
(* State.                                                                  *)
(***************************************************************************)
VARIABLES
    client,    \* the Clawget object the caller holds, NoClient before one exists
    pc,        \* where the call in progress stands; "idle" between calls
    cur,       \* the current (or last) call: its operation and its options
    issued,    \* the fetch() calls of the current (or last) call, in order
    answers,   \* how each of them settled, in order
    outcome    \* what the current (or last) call returned or threw

\* The command-line tool: one process at a time, the per-user config file
\* and what the process wrote and read.
VARIABLES
    configFile, \* ~/.clawget/config.json: NoFile, or the text it holds
    env,        \* process.env.CLAWGET_API_KEY of the process
    argv,       \* the command line of the process: program, command, options
    cpc,        \* "shell" before a process ran, then where the process stands
    stdout,     \* what the process wrote to standard output, in order
    stderr,     \* what the process wrote to standard error, in order
    stdin,      \* the lines the process read from standard input, in order
    exitCode,   \* the exit code, meaningful once cpc = "exited"
    skillDir    \* <cwd>/skills/skill-1: "absent", "old" (a directory with
                \* contents of its own) or "installed" (SKILL.md, README.md)

cliVars ==
    <<configFile, env, argv, cpc, stdout, stderr, stdin, exitCode, skillDir>>

vars == <<client, pc, cur, issued, answers, outcome, cliVars>>

\* No file at the config path.
NoFile == [t |-> "nofile"]

\* No process has been started: nothing written, nothing read.
NoProcess ==
    /\ env = Undefined
    /\ argv = [cli |-> "none", command |-> "none"]
    /\ cpc = "shell"
    /\ stdout = <<>>
    /\ stderr = <<>>
    /\ stdin = <<>>
    /\ exitCode = 0

Init ==
    /\ client = NoClient
    /\ pc = "idle"
    /\ cur = [op |-> "none", options |-> Undefined]
    /\ issued = <<>>
    /\ answers = <<>>
    /\ outcome = NoOutcome
    /\ configFile = NoFile
    /\ NoProcess
    /\ skillDir = "absent"

(***************************************************************************)
(* Actions.                                                                *)
(***************************************************************************)
\* new Clawget(config): synchronous; on a throw the caller gets no object.
Construct(config) ==
    /\ pc = "idle"
    /\ cur' = [op |-> "constructor", options |-> config]
    /\ issued' = <<>>
    /\ answers' = <<>>
    /\ outcome' = ConstructResult(config)
    /\ client' = IF ConstructResult(config).kind = "returned"
                 THEN NewClient(config)
                 ELSE client
    /\ pc' = "idle"
    /\ UNCHANGED cliVars

\* An instance operation up to its `await this.request(...)`.
Call(op) ==
    /\ pc = "idle"
    /\ client # NoClient
    /\ cur' = [op |-> op, options |-> Undefined]
    /\ issued' = <<Request(client, Method(op), Endpoint(op), Undefined)>>
    /\ answers' = <<>>
    /\ outcome' = Pending
    /\ pc' = "fetching"
    /\ UNCHANGED client
    /\ UNCHANGED cliVars

\* request(endpoint, { headers }) called as it is, up to its
\* `await fetch(...)`; Settle is its end.
CallRequest(optHeaders) ==
    /\ pc = "idle"
    /\ client # NoClient
    /\ cur' = [op |-> "request", options |-> Obj([headers |-> optHeaders])]
    /\ issued' = <<[Request(client, "GET", "/<endpoint>", Undefined)
                       EXCEPT !.headers = RequestHeaders(client.apiKey,
                                                         client.agentId,
                                                         optHeaders)]>>
    /\ answers' = <<>>
    /\ outcome' = Pending
    /\ pc' = "fetching"
    /\ UNCHANGED client
    /\ UNCHANGED cliVars

\* The exchange settles and the operation runs to its end.
Settle(f) ==
    /\ pc = "fetching"
    /\ answers' = Append(answers, f)
    /\ outcome' = OperationResult(cur.op, f)
    /\ pc' = "idle"
    /\ UNCHANGED <<client, cur, issued>>
    /\ UNCHANGED cliVars

\* skills.create up to its first await, or to its throw when it has neither
\* a categoryId nor a category name.
SkillsCreate(options) ==
    /\ pc = "idle"
    /\ client # NoClient
    /\ cur' = [op |-> "skills.create", options |-> options]
    /\ answers' = <<>>
    /\ IF NeedsLookup(options)
       THEN /\ issued' = <<Request(client, "GET", "/categories", Undefined)>>
            /\ outcome' = Pending
            /\ pc' = "lookup"
       ELSE IF ~Truthy(Get(options, "categoryId"))
       THEN /\ issued' = <<>>
            /\ outcome' = Threw(ClawgetError(
                   Str("Either categoryId or category name is required"),
                   Undefined, Undefined))
            /\ pc' = "idle"
       ELSE /\ issued' = <<Request(client, "POST", "/skills",
                              CreateBody(options, Get(options, "categoryId")))>>
            /\ outcome' = Pending
            /\ pc' = "posting"
    /\ UNCHANGED client
    /\ UNCHANGED cliVars

\* The /categories lookup settles: skills.create throws, or resolves the
\* category and goes on to POST /skills.
SettleLookup(f) ==
    /\ pc = "lookup"
    /\ answers' = Append(answers, f)
    /\ LET r == RequestResult(f)
           found == IF r.kind = "returned"
                    THEN ResolveCategory(cur.options, r.value)
                    ELSE r
       IN  IF found.kind = "returned"
           THEN /\ issued' = Append(issued,
                        Request(client, "POST", "/skills",
                                CreateBody(cur.options, found.value)))
                /\ outcome' = Pending
                /\ pc' = "posting"
           ELSE /\ issued' = issued
                /\ outcome' = found
                /\ pc' = "idle"
    /\ UNCHANGED <<client, cur>>
    /\ UNCHANGED cliVars

\* POST /skills settles: skills.create returns the response or throws.
SettlePost(f) ==
    /\ pc = "posting"
    /\ answers' = Append(answers, f)
    /\ outcome' = RequestResult(f)
    /\ pc' = "idle"
    /\ UNCHANGED <<client, cur, issued>>
    /\ UNCHANGED cliVars

\* Clawget.register up to its `await fetch(...)`; needs no client.
Register(options, baseUrl) ==
    /\ pc = "idle"
    /\ cur' = [op |-> "register", options |-> options]
    /\ issued' = <<RegisterRequest(options, baseUrl)>>
    /\ answers' = <<>>
    /\ outcome' = Pending
    /\ pc' = "registering"
    /\ UNCHANGED client
    /\ UNCHANGED cliVars

\* The registration exchange settles.
SettleRegister(f) ==
    /\ pc = "registering"
    /\ answers' = Append(answers, f)
    /\ outcome' = RegisterResult(f)
    /\ pc' = "idle"
    /\ UNCHANGED <<client, cur, issued>>
    /\ UNCHANGED cliVars

\* skills.activate or skills.uploadPackage up to its `await fetch(...)`.
CallDirect(op) ==
    /\ pc = "idle"
    /\ client # NoClient
    /\ cur' = [op |-> op, options |-> Undefined]
    /\ issued' = <<DirectRequest(client, op)>>
    /\ answers' = <<>>
    /\ outcome' = Pending
    /\ pc' = "direct"
    /\ UNCHANGED client
    /\ UNCHANGED cliVars

\* The exchange of a direct operation settles.
SettleDirect(f) ==
    /\ pc = "direct"
    /\ answers' = Append(answers, f)
    /\ outcome' = DirectResult(cur.op, f)
    /\ pc' = "idle"
    /\ UNCHANGED <<client, cur, issued>>
    /\ UNCHANGED cliVars

Next ==
    \/ \E config \in Configs : Construct(config)
    \/ \E op \in SimpleOps : Call(op)
    \/ \E f \in FetchResults(cur.op) : Settle(f)
    \/ \E options \in CreateOptions : SkillsCreate(options)
    \/ \E f \in FetchResults("categories.list") : SettleLookup(f)
    \/ \E f \in FetchResults("skills.create") : SettlePost(f)
    \/ \E options \in RegisterOptions :
          \E baseUrl \in {DefaultBaseUrl, Str("http://localhost:3000/api")} :
              Register(options, baseUrl)
    \/ \E f \in FetchResults("register") : SettleRegister(f)
    \/ \E op \in DirectOps : CallDirect(op)
    \/ \E optHeaders \in CallerHeaders : CallRequest(optHeaders)
    \/ \E f \in FetchResults(cur.op) : SettleDirect(f)

Spec == Init /\ [][Next]_vars

(***************************************************************************)
(* The command-line tool.  Two programs of the repository are the          *)
(* `clawget` command: src/src/cli.ts ("cli.ts"), with its command groups   *)
(* and legacy aliases, and src/unnamed/part_001 ("part_001"), the CLI      *)
(* that reads CLAWGET_API_KEY, confirms purchases and maps errors to exit  *)
(* codes.  Both build a Clawget client and call its operations.            *)
(***************************************************************************)
Clis == {"cli.ts", "part_001"}

\* console.log(...) / console.error(...) of prose: what it says and the
\* value printed with it.
Line(label, v) == [kind |-> "text", label |-> label, value |-> v]

\* What JSON.stringify keeps of a value: a property holding undefined is
\* left out, an undefined array element becomes null.
RECURSIVE JsonValue(_)
JsonValue(v) ==
    CASE v.t = "object" ->
             Obj([k \in {x \in DOMAIN v.v : v.v[x].t # "undefined"} |->
                     JsonValue(v.v[k])])
      [] v.t = "array" ->
             Arr([i \in DOMAIN v.v |->
                     IF v.v[i].t = "undefined" THEN Null ELSE JsonValue(v.v[i])])
      [] OTHER -> v

\* console.log(JSON.stringify(data, null, 2)): one JSON text, except that
\* JSON.stringify(undefined) is undefined, printed as the word `undefined`.
Stringified(data) ==
    IF data.t = "undefined"
    THEN Line("undefined", Undefined)
    ELSE [kind |-> "json", label |-> "", value |-> JsonValue(data)]

\* formatOutput(data, json)
FormatOutput(data, json) ==
    IF json THEN Stringified(data) ELSE Line("data", data)

(***************************************************************************)
(* The config file: loadConfig, saveConfig.                                *)
(***************************************************************************)
File(text) == [t |-> "file", text |-> text]

\* The keys a config file can hold: key-A and key-B are issued by the
\* backend, key-A and key-C are typed by the user of `auth`.
ApiKeys == {"key-A", "key-B", "key-C"}

\* JSON.stringify({ apiKey }, null, 2)
ConfigText(apiKey) == "{\n  \"apiKey\": \"" \o apiKey \o "\"\n}"

\* A config file written by hand: a saved key and defaults for `search`.
DefaultsText ==
    "{\"apiKey\": \"key-A\", \"defaults\": {\"search\": {\"limit\": 5}}}"

\* JSON.parse of the texts a config file holds here; any other text, such
\* as a file cut off after `{ "apiKey": `, is a SyntaxError.
JsonParse(text) ==
    CASE text = "null" -> Returned(Null)
      [] text = "[]"   -> Returned(Arr(<<>>))
      [] text = "{}"   -> Returned(EmptyObj)
      [] text = DefaultsText ->
             Returned(Obj([apiKey |-> Str("key-A"),
                           defaults |->
                               Obj([search |-> Obj([limit |-> Num(5)])])]))
      [] \E k \in ApiKeys : text = ConfigText(k) ->
             Returned(Obj([apiKey |->
                 Str(CHOOSE k \in ApiKeys : text = ConfigText(k))]))
      [] OTHER -> Threw(JsError("SyntaxError",
                                Str("Unexpected end of JSON input")))

\* loadConfig(): the parsed file; {} when there is no file or reading or
\* parsing it throws.
LoadConfig(file) ==
    IF file = NoFile
    THEN EmptyObj
    ELSE LET r == JsonParse(file.text)
         IN  IF r.kind = "returned" THEN r.value ELSE EmptyObj

\* Mutant of SaveConfig: the file is written without the key.
SaveConfig_NoKey(config) == File("{}")

\* saveConfig({ apiKey }): the file after writeFileSync.  JSON.stringify
\* leaves out a property whose value is undefined.
SaveConfig(config) ==
    IF Get(config, "apiKey").t = "string"
    THEN File(ConfigText(Get(config, "apiKey").v))
    ELSE File("{}")

(***************************************************************************)
(* getClient.  Its result is a client, null, an exit of the process or a   *)
(* throw into the command's catch block.                                   *)
(***************************************************************************)
GotClient(c) ==
    [kind |-> "client", client |-> c, error |-> Undefined, err |-> <<>>]

GotNull ==
    [kind |-> "null", client |-> NoClient, error |-> Undefined, err |-> <<>>]

GotThrow(e) ==
    [kind |-> "threw", client |-> NoClient, error |-> e, err |-> <<>>]

\* console.error(...) lines, then process.exit(1)
GotExit(lines) ==
    [kind |-> "exit", client |-> NoClient, error |-> Undefined, err |-> lines]

\* new Clawget({ apiKey, baseUrl: 'https://clawget.io/api' })
CliClientConfig(apiKey) ==
    Obj([apiKey |-> apiKey, baseUrl |-> Str("https://clawget.io/api")])

\* The `new Clawget(config)` both getClient functions end with.
BuildClient(config) ==
    IF ConstructResult(config).kind = "returned"
    THEN GotClient(NewClient(config))
    ELSE GotThrow(ConstructResult(config).error)

\* cli.ts getClient(required): the key comes from the config file alone.
GetClientCliTs(required, file) ==
    LET config == LoadConfig(file)
    IN  IF IsNullish(config)
        THEN GotThrow(NullReadError)
        ELSE IF ~Truthy(Get(config, "apiKey"))
        THEN IF required
             THEN GotExit(<<Line("No API key found. Run: clawget auth <api-key>",
                                 Undefined),
                            Line("Or register a new agent: clawget register",
                                 Undefined)>>)
             ELSE GotNull
        ELSE BuildClient(CliClientConfig(Get(config, "apiKey")))

\* part_001 getClient(requireAuth):
\*   apiKey = process.env.CLAWGET_API_KEY || loadConfig().apiKey
GetClientPart001(requireAuth, envKey, file) ==
    LET config == LoadConfig(file)
        apiKey == IF Truthy(envKey) THEN envKey ELSE Get(config, "apiKey")
    IN  IF ~Truthy(envKey) /\ IsNullish(config)
        THEN GotThrow(NullReadError)
        ELSE IF requireAuth /\ ~Truthy(apiKey)
        THEN GotExit(<<Line("No API key found", Undefined),
                       Line("Authenticate with:", Undefined),
                       Line("clawget auth <your-api-key>", Undefined),
                       Line("Or set environment variable:", Undefined),
                       Line("export CLAWGET_API_KEY=sk_...", Undefined),
                       Line("Get your API key at: https://clawget.io/dashboard/api-keys",
                            Undefined)>>)
        ELSE BuildClient(CliClientConfig(Or(apiKey, Str(""))))

GetClient(cli, required, envKey, file) ==
    IF cli = "cli.ts"
    THEN GetClientCliTs(required, file)
    ELSE GetClientPart001(required, envKey, file)

(***************************************************************************)
(* Error rendering: the catch blocks of the commands.                      *)
(***************************************************************************)
\* error.code
ErrorCode(e) == IF "code" \in DOMAIN e THEN e.code ELSE Undefined

\* What a catch block does: lines on standard error, then process.exit.
Failure(lines, code) == [err |-> lines, code |-> code]

\* cli.ts, every command:
\*   console.error('❌ Error:', error.message); process.exit(1)
CatchCliTs(error) == Failure(<<Line("Error:", error.message)>>, 1)

\* part_001 handleError: error.code === 'ENOTFOUND' || error.code === 'ETIMEDOUT'
NetworkFailure(error) ==
    ErrorCode(error) \in {Str("ENOTFOUND"), Str("ETIMEDOUT")}

\* part_001 handleError(error, json)
HandleError(error, json) ==
    Failure(<<IF json
              THEN Stringified(Obj(
                       [error |-> Bool(TRUE),
                        code |-> Or(ErrorCode(error), Str("UNKNOWN_ERROR")),
                        message |-> Or(error.message,
                                       Str("An unknown error occurred"))]))
              ELSE Line("Error:", error.message)>>,
            IF NetworkFailure(error) THEN 2 ELSE 1)

\* error.message.includes('insufficient balance'), by the messages of this
\* model that contain the words.
IncludesInsufficientBalance(message) ==
    /\ message.t = "string"
    /\ message.v \in {"insufficient balance",
                      "Payment failed: insufficient balance"}

\* part_001 executePurchase, catch block
ExecutePurchaseCatch(error, json) ==
    IF IncludesInsufficientBalance(error.message)
    THEN Failure(IF json
                 THEN <<>>
                 ELSE <<Line("Insufficient balance", Undefined),
                        Line("Fund your wallet:", Undefined),
                        Line("$ clawget wallet  # Get deposit address",
                             Undefined)>>,
                 3)
    ELSE HandleError(error, json)

\* Mutant of Catch: the catch block reports the error and lets the handler
\* end normally.
Catch_ExitZero(a, inPurchase, error) ==
    Failure(<<Line("Error:", error.message)>>, 0)

\* The catch block an error of command `a` lands in; `inPurchase` says that
\* it was thrown inside executePurchase.
Catch(a, inPurchase, error) ==
    IF a.cli = "cli.ts"
    THEN CatchCliTs(error)
    ELSE IF inPurchase
    THEN ExecutePurchaseCatch(error, a.json)
    ELSE HandleError(error, a.json)

(***************************************************************************)
(* The commands.                                                           *)
(***************************************************************************)
\* The handlers of cli.ts modelled here: `auth`, `register`, `skills buy`,
\* `reviews create` and the legacy commands.
CliTsCommands ==
    {"auth", "register", "skills buy", "reviews create", "wallet-legacy",
     "search", "buy", "list"}

\* The handlers of part_001 modelled here.
Part001Commands ==
    {"login", "auth", "wallet", "search", "buy", "list", "install"}

\* What the user types where part_001 expects a command name.
UnknownCommands ==
    {"serach", "lits", "bu", "wallets", "logn", "wal", "deploy"}

\* One command line: the program, the command, its argument, --json and
\* --yes.  `auth` has no --json; only part_001's `buy` has --yes.  Without
\* --limit, options.limit is the default the option is declared with;
\* --force is an option of `install` alone, and --rating a required
\* option of `reviews create`.
Invocation(cli, command, json, yes) ==
    [cli |-> cli, command |-> command, json |-> json, yes |-> yes,
     limitGiven |-> FALSE, force |-> FALSE,
     rating |-> IF command = "reviews create" THEN Str("5") ELSE Undefined,
     arg |-> CASE command = "auth" -> Str("key-A")
               [] command \in {"skills buy", "buy", "install",
                               "reviews create"} -> Str("skill-1")
               [] command = "search" -> Str("api")
               [] OTHER -> Undefined,
     limit |-> CASE command = "search" -> Str("10")
                 [] command = "list" -> Str("20")
                 [] OTHER -> Undefined]

\* The command line `a` with the options `given` on it.
WithOptions(a, given) == given @@ a

\* The command lines of the commands that go from getClient to the calls
\* of a client (`auth`, `register` and `login` build none): each with and
\* without --json, `reviews create` with more ratings, `buy` with --yes,
\* `search` with --limit 20, `install` with --force.
Invocations ==
    UNION {{Invocation(cli, c, j, FALSE) :
               c \in (IF cli = "cli.ts" THEN CliTsCommands ELSE Part001Commands)
                         \ {"auth", "register", "login"},
               j \in BOOLEAN} : cli \in Clis}
    \cup {WithOptions(Invocation("cli.ts", "reviews create", j, FALSE),
                      [rating |-> Str(r)]) :
              j \in BOOLEAN, r \in {"1", "0", "6", "abc"}}
    \cup {Invocation("part_001", "buy", j, TRUE) : j \in BOOLEAN}
    \cup {WithOptions(Invocation(cli, "search", FALSE, FALSE),
                      [limit |-> Str("20"), limitGiven |-> TRUE]) :
              cli \in Clis}
    \cup {WithOptions(Invocation("part_001", "install", j, FALSE),
                      [force |-> TRUE]) : j \in BOOLEAN}

\* Whether the handler calls getClient() or getClient(false).
RequiresAuth(a) == a.command # "search"

\* The client operation the handler awaits first.
FirstOp(a) ==
    CASE a.command \in {"skills buy", "buy"}       -> "skills.buy"
      [] a.command \in {"wallet", "wallet-legacy"} -> "wallet.balance"
      [] a.command = "search"                      -> "skills.list"
      [] a.command = "list"                        -> "purchases.list"
      [] a.command = "install"                     -> "skills.get"
      [] a.command = "reviews create"              -> "reviews.create"

\* parseInt of the option values used here; NaN is the number without a
\* value.
ParseInt(s) ==
    CASE s = Str("10")  -> Num(10)
      [] s = Str("20")  -> Num(20)
      [] s = Str("1")   -> Num(1)
      [] s = Str("5")   -> Num(5)
      [] s = Str("0")   -> Num(0)
      [] s = Str("6")   -> Num(6)
      [] s = Str("abc") -> [t |-> "number", nan |-> TRUE]

\* x?.k
OptGet(x, k) == IF IsNullish(x) THEN Undefined ELSE Get(x, k)

\* What part_001's `search` reads from the config before getClient:
\*   limit = parseInt(options.limit) || config.defaults?.search?.limit || 10
\*   category = options.category || config.defaults?.search?.category
\* The second line reads config.defaults, a TypeError when config is null.
SearchOptions(a, config) ==
    IF IsNullish(config)
    THEN Threw(NullReadError)
    ELSE LET search == OptGet(Get(config, "defaults"), "search")
         IN  Returned(Obj(
                 [query |-> a.arg,
                  category |-> OptGet(search, "category"),
                  limit |-> Or(Or(ParseInt(a.limit), OptGet(search, "limit")),
                               Num(10))]))

\* The options the handler passes to the client operation; part_001's
\* `search` and `install` can throw while building them, as both read
\* config.defaults of the loaded config.
CallOptions(a, file) ==
    CASE a.command \in {"skills buy", "buy"} ->
             Returned(Obj([skillId |-> a.arg, autoInstall |-> Undefined]))
      [] a.command = "search" /\ a.cli = "part_001" ->
             SearchOptions(a, LoadConfig(file))
      [] a.command = "search" /\ a.cli = "cli.ts" ->
             Returned(Obj([query |-> a.arg, category |-> Undefined,
                           limit |-> ParseInt(a.limit)]))
      [] a.command = "list" ->
             Returned(Obj([page |-> ParseInt(Str("1")),
                           limit |-> ParseInt(a.limit)]))
      [] a.command = "reviews create" ->
             Returned(Obj([skillId |-> a.arg, rating |-> ParseInt(a.rating),
                           title |-> Undefined, body |-> Str("Works well")]))
      [] a.command = "install" ->
             IF IsNullish(LoadConfig(file))
             THEN Threw(NullReadError)
             ELSE Returned(a.arg)
      [] OTHER -> Returned(Undefined)

\* skills.buy: JSON.stringify({ skillId, autoInstall: autoInstall ?? false })
BuyBody(options) ==
    Obj([skillId |-> Get(options, "skillId"),
         autoInstall |-> IF IsNullish(Get(options, "autoInstall"))
                         THEN Bool(FALSE)
                         ELSE Get(options, "autoInstall")])

\* skills.list: the URLSearchParams built from the options the commands
\* pass (category, query and limit, each appended only when truthy).
ListParams(options) ==
    LET Param(v) == IF Truthy(v) THEN v ELSE Absent
    IN  MkObj([category |-> Param(Get(options, "category")),
               q |-> Param(Get(options, "query")),
               limit |-> Param(Get(options, "limit"))])

\* The fetch() a client operation called by a command makes; `query`
\* holds what stands for <params> in the URL of skills.list.  The body of
\* reviews.create is JSON.stringify({ listingId: options.skillId, rating,
\* title, body }), in which NaN is written as null.
CliRequest(c, op, options) ==
    LET rating == Get(options, "rating")
    IN  Request(c, Method(op), Endpoint(op),
                CASE op = "skills.buy" -> BuyBody(options)
                  [] op = "reviews.create" ->
                         JsonValue(Obj(
                             [listingId |-> Get(options, "skillId"),
                              rating |-> IF "v" \in DOMAIN rating
                                         THEN rating
                                         ELSE Null,
                              title |-> Get(options, "title"),
                              body |-> Get(options, "body")]))
                  [] OTHER -> Undefined)
    @@ [query |-> IF op = "skills.list"
                  THEN ListParams(options)
                  ELSE Undefined]

\* cli.ts: the legacy commands print a tip on standard output first.
Tip(a) ==
    IF a.cli = "cli.ts"
       /\ a.command \in {"wallet-legacy", "search", "buy", "list"}
    THEN <<Line("Tip: Use the new command", Undefined)>>
    ELSE <<>>

\* What a handler prints on standard output between getClient and its
\* first await: cli.ts `skills buy` and `reviews create` their progress
\* line, part_001's
\* executePurchase and `install` their own unless --json.
Progress(a) ==
    IF a.cli = "cli.ts" /\ a.command = "skills buy"
    THEN <<Line("Purchasing skill", a.arg)>>
    ELSE IF a.command = "reviews create"
    THEN <<Line("Posting review for", a.arg)>>
    ELSE IF a.command = "install" /\ ~a.json
    THEN <<Line("Installing skill:", a.arg)>>
    ELSE IF a.cli = "part_001" /\ a.command = "buy" /\ ~a.json
    THEN <<Line("Processing purchase...", Undefined)>>
    ELSE <<>>

(***************************************************************************)
(* Human-mode rendering.  What matters of it is where it ends: a branch    *)
(* prints its heading and then either all of its lines, kept here as one   *)
(* chunk holding the value they are printed from, or it reads a property   *)
(* of null or undefined on the way, which throws a TypeError into the      *)
(* command's catch block.                                                  *)
(***************************************************************************)
Printed(lines) == [lines |-> lines, error |-> Undefined]

PrintedThenThrew(lines) == [lines |-> lines, error |-> NullReadError]

\* .length and .forEach of a value: only an array has both.
IsList(x) == x.t = "array"

\* The body of the forEach over the skills of `search` and over the
\* purchases of `list` throws for this item: skill.title of no skill,
\* skill.description.substring(...) of a skill without description
\* (part_001), purchase.skill.name of a purchase without skill.
ItemThrows(a, item) ==
    \/ IsNullish(item)
    \/ /\ a.command = "search"
       /\ a.cli = "part_001"
       /\ Get(item, "description").t # "string"
    \/ /\ a.command = "list"
       /\ IsNullish(Get(item, "skill"))

\* The human-mode branch of command `a` throws while it prints `result`.
HumanThrows(a, result) ==
    CASE a.command \in {"skills buy", "buy", "wallet", "reviews create",
                        "register"} ->
             IsNullish(result)
      [] a.command = "wallet-legacy" -> IsNullish(Get(result, "balance"))
      [] a.command = "search" ->
             LET skills == Get(result, "skills")
             IN  \/ ~IsList(skills)
                 \/ \E i \in DOMAIN skills.v : ItemThrows(a, skills.v[i])
                 \/ skills.v # <<>> /\ IsNullish(Get(result, "pagination"))
      [] a.command = "list" ->
             \/ IsNullish(result)
             \/ ~IsList(Get(result, "purchases"))
             \/ \E i \in DOMAIN Get(result, "purchases").v :
                    ItemThrows(a, Get(result, "purchases").v[i])
             \/ /\ a.cli = "part_001"
                /\ Get(result, "purchases").v # <<>>
                /\ IsNullish(Get(result, "pagination"))

\* The first line of the human-mode branch of command `a`.
Heading(a) ==
    CASE a.command \in {"skills buy", "buy"} -> "Purchase successful!"
      [] a.command = "reviews create" -> "Review posted successfully!"
      [] a.command = "register" -> "Agent registered successfully!"
      [] a.command = "wallet-legacy" -> "Wallet"
      [] a.command = "wallet" -> "Wallet Balance"
      [] a.command = "search" -> "Search results for"
      [] a.command = "list" /\ a.cli = "cli.ts" -> "Your Purchases"
      [] a.command = "list" /\ a.cli = "part_001" -> "Your Purchased Skills"

\* The human-mode branch of command `a` for the result of its client calls.
Human(a, result) ==
    IF HumanThrows(a, result)
    THEN PrintedThenThrew(<<Line(Heading(a), Undefined)>>)
    ELSE Printed(<<Line(Heading(a), Undefined), Line("lines of", result)>>)

\* What the handler does with the result once its last call returned:
\* formatOutput(result, true) under --json, the human branch otherwise.
Render(a, result) ==
    IF a.json THEN Printed(<<FormatOutput(result, TRUE)>>) ELSE Human(a, result)

(***************************************************************************)
(* part_001 `install`, from the purchase check to its end.                 *)
(***************************************************************************)
\* What is left of `install` once skills.get() returned `skill` and
\* purchases.list() returned `purchases`, with the target directory in
\* state `dir`: the lines on standard output and on standard error, the
\* exit code and the directory afterwards.  purchases.purchases.find(...)
\* reads p.skill.id of every purchase up to the first match, and
\* path.join(...) takes skill.slug; either can throw a TypeError into the
\* catch block.
Install(a, skill, purchases, dir) ==
    LET list == OptGet(purchases, "purchases")
        Throws(i) ==
            IsNullish(list.v[i]) \/ IsNullish(Get(list.v[i], "skill"))
        Match(i) ==
            /\ ~Throws(i)
            /\ \/ Get(Get(list.v[i], "skill"), "id") = a.arg
               \/ Get(Get(list.v[i], "skill"), "slug") = a.arg
        Reached(i) == \A j \in 1..(i - 1) : ~Throws(j) /\ ~Match(j)
        End(out, err, code, after) ==
            [out |-> out, err |-> err, code |-> code, dir |-> after]
        Caught == End(<<>>, HandleError(NullReadError, a.json).err,
                      HandleError(NullReadError, a.json).code, dir)
        Refused(code, message, lines) ==
            End(<<>>,
                IF a.json
                THEN <<Stringified(Obj([error |-> Bool(TRUE),
                                        code |-> Str(code),
                                        message |-> Str(message)]))>>
                ELSE lines,
                IF code = "NOT_PURCHASED" THEN 4 ELSE 6, dir)
    IN  IF \/ IsNullish(purchases)
           \/ ~IsList(list)
           \/ \E i \in DOMAIN list.v : Reached(i) /\ Throws(i)
        THEN Caught
        ELSE IF ~\E i \in DOMAIN list.v : Match(i)
        THEN Refused("NOT_PURCHASED", "Skill not purchased: " \o a.arg.v,
                     <<Line("Skill not purchased", Undefined),
                       Line("Buy it first:", Undefined),
                       Line("$ clawget buy", a.arg)>>)
        ELSE IF IsNullish(skill) \/ Get(skill, "slug").t # "string"
        THEN Caught
        ELSE IF dir # "absent" /\ ~a.force
        THEN Refused("ALREADY_EXISTS",
                     "Directory already exists: skills/"
                         \o Get(skill, "slug").v,
                     <<Line("Directory already exists", Undefined),
                       Line("Path:", Str("skills/" \o Get(skill, "slug").v)),
                       Line("Use --force to overwrite", Undefined)>>)
        ELSE End(IF a.json
                 THEN <<FormatOutput(
                            Obj([installed |-> Bool(TRUE),
                                 path |-> Str("skills/"
                                              \o Get(skill, "slug").v),
                                 skill |-> Get(skill, "title"),
                                 licenseKey |->
                                     Get(list.v[CHOOSE i \in DOMAIN list.v :
                                                    Match(i) /\ Reached(i)],
                                         "licenseKey")]),
                            TRUE)>>
                 ELSE <<Line("Skill installed successfully!", Undefined),
                        Line("Location:",
                             Str("skills/" \o Get(skill, "slug").v)),
                        Line("Next steps:", Undefined)>>,
                 <<>>, 0, "installed")

(***************************************************************************)
(* part_001: suggestCommand and the handler of unknown commands.           *)
(***************************************************************************)
\* The characters of the command names and of the inputs used here.
Spelling(name) ==
    CASE name = "login"   -> <<"l", "o", "g", "i", "n">>
      [] name = "auth"    -> <<"a", "u", "t", "h">>
      [] name = "wallet"  -> <<"w", "a", "l", "l", "e", "t">>
      [] name = "search"  -> <<"s", "e", "a", "r", "c", "h">>
      [] name = "buy"     -> <<"b", "u", "y">>
      [] name = "install" -> <<"i", "n", "s", "t", "a", "l", "l">>
      [] name = "list"    -> <<"l", "i", "s", "t">>
      [] name = "publish" -> <<"p", "u", "b", "l", "i", "s", "h">>
      [] name = "serach"  -> <<"s", "e", "r", "a", "c", "h">>
      [] name = "lits"    -> <<"l", "i", "t", "s">>
      [] name = "bu"      -> <<"b", "u">>
      [] name = "wallets" -> <<"w", "a", "l", "l", "e", "t", "s">>
      [] name = "logn"    -> <<"l", "o", "g", "n">>
      [] name = "wal"     -> <<"w", "a", "l">>
      [] name = "deploy"  -> <<"d", "e", "p", "l", "o", "y">>

\* program.commands.map(cmd => cmd.name()), in the order part_001
\* registers its commands.
AvailableCommands ==
    <<"login", "auth", "wallet", "search", "buy", "install", "list",
      "publish">>

Min3(x, y, z) ==
    IF x <= y /\ x <= z THEN x ELSE IF y <= z THEN y ELSE z

\* The inner loop of levenshtein: row i of the matrix, filled from column
\* 1 on, from the row above (`prev`) and c = b.charAt(i - 1).  Column j of
\* a row is element j + 1 of its sequence.
RECURSIVE FillRow(_, _, _, _)
FillRow(a, c, prev, row) ==
    IF Len(row) = Len(a) + 1
    THEN row
    ELSE LET j == Len(row)
             cell == IF c = a[j]
                     THEN prev[j]
                     ELSE Min3(prev[j] + 1, row[j] + 1, prev[j + 1] + 1)
         IN  FillRow(a, c, prev, Append(row, cell))

\* The outer loop of levenshtein: rows i, i + 1, ... b.length; the last row.
RECURSIVE LastRow(_, _, _, _)
LastRow(a, b, i, prev) ==
    IF i > Len(b)
    THEN prev
    ELSE LastRow(a, b, i + 1, FillRow(a, b[i], prev, <<i>>))

\* levenshtein(a, b): matrix[b.length][a.length]; row 0 is 0, 1, ... a.length
Levenshtein(a, b) ==
    LastRow(a, b, 1, [j \in 1..(Len(a) + 1) |-> j - 1])[Len(a) + 1]

\* let minDistance = Infinity
Infinity == [t |-> "number", infinite |-> TRUE]

\* Mutant of Closer: the threshold of 2 is dropped.
Closer_NoThreshold(distance, minDistance) ==
    minDistance = Infinity \/ distance < minDistance.v

\* distance < minDistance && distance <= 2
Closer(distance, minDistance) ==
    /\ minDistance = Infinity \/ distance < minDistance.v
    /\ distance <= 2

\* The loop of suggestCommand over commands[1..n]: closest and minDistance.
RECURSIVE Closest(_, _, _)
Closest(input, commands, n) ==
    IF n = 0
    THEN [closest |-> Null, minDistance |-> Infinity]
    ELSE LET before == Closest(input, commands, n - 1)
             distance == Levenshtein(Spelling(input), Spelling(commands[n]))
         IN  IF Closer(distance, before.minDistance)
             THEN [closest |-> Str(commands[n]), minDistance |-> Num(distance)]
             ELSE before

\* suggestCommand(input, commands)
SuggestCommand(input, commands) ==
    Closest(input, commands, Len(commands)).closest

\* program.on('command:*'): everything it writes, all to standard error.
UnknownCommandLines(unknownCommand) ==
    LET suggestion == SuggestCommand(unknownCommand, AvailableCommands)
    IN  <<Line("Unknown command:", Str(unknownCommand))>>
        \o (IF Truthy(suggestion)
            THEN <<Line("Did you mean:", Undefined),
                   Line("clawget", suggestion)>>
            ELSE <<>>)
        \o <<Line("Available commands:", Undefined)>>
        \o [i \in DOMAIN AvailableCommands |->
               Line("command", Str(AvailableCommands[i]))]
        \o <<Line("Run \"clawget --help\" for more information", Undefined)>>

(***************************************************************************)
(* The environment of the command-line tool.                               *)
(***************************************************************************)
\* process.env.CLAWGET_API_KEY: unset, empty or set.
EnvKeys == {Undefined, Str(""), Str("key-B")}

\* What the config path holds when a process starts: nothing, a file cut
\* off while it was written, JSON that is no object, an object without a
\* key, a saved key, a saved key with defaults.
ConfigFiles ==
    {NoFile, File("{ \"apiKey\": "), File("null"), File("[]"), File("{}"),
     File(ConfigText("key-A")), File(DefaultsText)}

\* What the user types at the confirmation prompt, as the 'data' event
\* delivers it.
StdinData == {"y\n", "yes\n", "Y\n", "n\n", "\n", "yeah\n"}

\* data.toString().trim().toLowerCase() for the lines of StdinData.
Answer(data) ==
    CASE data = "y\n"    -> "y"
      [] data = "yes\n"  -> "yes"
      [] data = "Y\n"    -> "y"
      [] data = "n\n"    -> "n"
      [] data = "\n"     -> ""
      [] data = "yeah\n" -> "yeah"

\* part_001 `buy`: if (answer !== 'y' && answer !== 'yes')
Cancelled(answer) == answer # "y" /\ answer # "yes"

\* part_001 `buy`: if (!options.json && !options.yes)
NeedsConfirm(a) ==
    a.cli = "part_001" /\ a.command = "buy" /\ ~a.json /\ ~a.yes

\* Errors thrown inside executePurchase land in its own catch block.
InPurchase(a) == a.cli = "part_001" /\ a.command = "buy"

(***************************************************************************)
(* Actions of the command-line tool.                                       *)
(***************************************************************************)
\* A process starts: `clawget <command> ...` with CLAWGET_API_KEY = e.
Exec(a, e) ==
    /\ cpc = "shell"
    /\ pc = "idle"
    /\ argv' = a
    /\ env' = e
    /\ stdin' = <<>>
    /\ answers' = <<>>
    /\ UNCHANGED skillDir

\* The process ends without having built a client or made a call.
NoCall ==
    /\ client' = NoClient
    /\ cur' = [op |-> "none", options |-> Undefined]
    /\ issued' = <<>>
    /\ outcome' = NoOutcome
    /\ pc' = "idle"

\* process.exit(code), or the end of the handler for code 0.
Exit(code) ==
    /\ cpc' = "exited"
    /\ exitCode' = code

\* A catch block runs: failure.err on standard error, then process.exit.
Fail(failure) ==
    /\ stderr' = stderr \o failure.err
    /\ Exit(failure.code)

\* The handler awaits client.<op>(options).
Await(op, options) ==
    /\ cur' = [op |-> op, options |-> options]
    /\ outcome' = Pending
    /\ pc' = "fetching"
    /\ cpc' = "awaiting"
    /\ exitCode' = 0

\* `clawget auth <api-key>`: saveConfig({ apiKey }) and a confirmation.
Auth(cli, key, e) ==
    LET a == [Invocation(cli, "auth", FALSE, FALSE) EXCEPT !.arg = Str(key)]
    IN  /\ Exec(a, e)
        /\ configFile' = SaveConfig(Obj([apiKey |-> a.arg]))
        /\ stdout' = IF cli = "cli.ts"
                     THEN <<Line("API key saved to", Str("config.json"))>>
                     ELSE <<Line("API key saved to", Str("config.json")),
                            Line("Test it:", Undefined),
                            Line("$ clawget wallet", Undefined)>>
        /\ stderr' = <<>>
        /\ NoCall
        /\ Exit(0)

\* part_001, a command name it does not know: program.on('command:*').
UnknownCommand(input, e) ==
    /\ Exec(Invocation("part_001", input, FALSE, FALSE), e)
    /\ stdout' = <<>>
    /\ stderr' = UnknownCommandLines(input)
    /\ NoCall
    /\ Exit(1)
    /\ UNCHANGED configFile

\* A command that calls the client, from the start of its handler to its
\* exit, to its confirmation prompt or to its first await.
Command(a, e) ==
    LET options == CallOptions(a, configFile)
        got == GetClient(a.cli, RequiresAuth(a), e, configFile)
    IN  /\ Exec(a, e)
        /\ UNCHANGED configFile
        /\ IF options.kind = "threw"
           THEN /\ stdout' = Tip(a)
                /\ NoCall
                /\ stderr' = Catch(a, FALSE, options.error).err
                /\ Exit(Catch(a, FALSE, options.error).code)
           ELSE IF got.kind = "threw"
           THEN /\ stdout' = Tip(a)
                /\ NoCall
                /\ stderr' = Catch(a, FALSE, got.error).err
                /\ Exit(Catch(a, FALSE, got.error).code)
           ELSE IF got.kind = "exit"
           THEN /\ stdout' = Tip(a)
                /\ NoCall
                /\ stderr' = got.err
                /\ Exit(1)
           ELSE IF got.kind = "null"
           THEN /\ stdout' = Tip(a)
                /\ NoCall
                /\ stderr' = <<Line("API key required", Undefined)>>
                /\ Exit(1)
           ELSE IF /\ a.command = "reviews create"
                   /\ "v" \in DOMAIN ParseInt(a.rating)
                   /\ \/ ParseInt(a.rating).v < 1
                      \/ ParseInt(a.rating).v > 5
           THEN /\ stdout' = Tip(a)
                /\ stderr' = <<Line("Rating must be between 1 and 5",
                                    Undefined)>>
                /\ client' = got.client
                /\ cur' = [op |-> "none", options |-> Undefined]
                /\ issued' = <<>>
                /\ outcome' = NoOutcome
                /\ pc' = "idle"
                /\ Exit(1)
           ELSE IF NeedsConfirm(a)
           THEN /\ stdout' = <<Line("Purchasing skill:", a.arg),
                               Line("Confirm? [y/N]", Undefined)>>
                /\ stderr' = <<>>
                /\ client' = got.client
                /\ cur' = [op |-> "none", options |-> Undefined]
                /\ issued' = <<>>
                /\ outcome' = NoOutcome
                /\ pc' = "idle"
                /\ cpc' = "prompt"
                /\ exitCode' = 0
           ELSE /\ stdout' = Tip(a) \o Progress(a)
                /\ stderr' = <<>>
                /\ client' = got.client
                /\ issued' = <<CliRequest(got.client, FirstOp(a),
                                          options.value)>>
                /\ Await(FirstOp(a), options.value)

\* part_001 `buy`: the 'data' event of standard input delivers the answer;
\* anything but 'y' or 'yes' cancels, otherwise executePurchase starts.
Confirm(data) ==
    /\ cpc = "prompt"
    /\ stdin' = Append(stdin, data)
    /\ IF Cancelled(Answer(data))
       THEN /\ stdout' = Append(stdout, Line("Purchase cancelled", Undefined))
            /\ Exit(0)
            /\ UNCHANGED <<cur, issued, outcome, pc>>
       ELSE /\ stdout' = stdout \o Progress(argv)
            /\ issued' = <<CliRequest(client, FirstOp(argv),
                                      CallOptions(argv, configFile).value)>>
            /\ Await(FirstOp(argv), CallOptions(argv, configFile).value)
    /\ UNCHANGED <<client, answers, configFile, env, argv, stderr, skillDir>>

\* What the call of `op` returns or throws once its fetch() settled with
\* f: Clawget.register is static and makes its own fetch().
CallResult(op, f) ==
    IF op = "register" THEN RegisterResult(f) ELSE OperationResult(op, f)

\* cli.ts `register`, up to await Clawget.register({ name, platform }).
CliRegister(json, e) ==
    LET options == Obj([name |-> Undefined, platform |-> Str("sdk")])
    IN  /\ Exec(Invocation("cli.ts", "register", json, FALSE), e)
        /\ stdout' = <<Line("Registering new agent...", Undefined)>>
        /\ stderr' = <<>>
        /\ client' = NoClient
        /\ issued' = <<RegisterRequest(options, DefaultBaseUrl)>>
        /\ Await("register", options)
        /\ UNCHANGED configFile

\* part_001 `login`, up to rl.question(...); `opened` says whether the
\* import of the 'open' package succeeded.
Login(opened, e) ==
    LET error == JsError("Error", Str("Cannot find package 'open'"))
    IN  /\ Exec(Invocation("part_001", "login", FALSE, FALSE), e)
        /\ NoCall
        /\ UNCHANGED configFile
        /\ IF opened
           THEN /\ stdout' = <<Line("Welcome to Clawget!", Undefined),
                               Line("Steps:", Undefined),
                               Line("Paste your token here:", Undefined)>>
                /\ stderr' = <<>>
                /\ cpc' = "reading"
                /\ exitCode' = 0
           ELSE /\ stdout' = <<>>
                /\ stderr' = HandleError(error, FALSE).err
                /\ Exit(HandleError(error, FALSE).code)

\* The callback of rl.question runs with the line the user typed.
\* register: 'y' or 'yes' saves the key of the registration, then
\* readline.close().  login: rl.close(), then an empty token ends the
\* process and any other is sent, trimmed, to the exchange endpoint.
Prompt(data) ==
    LET token == IF data = "Y\n" THEN "Y" ELSE Answer(data)
    IN
    /\ cpc = "reading"
    /\ ~argv.json
    /\ stdin' = Append(stdin, data)
    /\ IF argv.command = "register"
       THEN /\ IF Cancelled(Answer(data))
               THEN UNCHANGED <<configFile, stdout>>
               ELSE /\ configFile' =
                           SaveConfig(Obj([apiKey |->
                                               Get(outcome.value, "apiKey")]))
                    /\ stdout' = Append(stdout,
                                        Line("API key saved!", Undefined))
            /\ Exit(0)
            /\ UNCHANGED <<cur, issued, outcome, pc, stderr>>
       ELSE IF token = ""
       THEN /\ stderr' = Append(stderr, Line("No token provided", Undefined))
            /\ Exit(1)
            /\ UNCHANGED <<cur, issued, outcome, pc, stdout, configFile>>
       ELSE /\ stdout' = Append(stdout,
                                Line("Exchanging token for API key...",
                                     Undefined))
            /\ issued' = <<[method |-> "POST",
                            url |-> "https://clawget.io/api/cli-auth/exchange",
                            headers |->
                                ("Content-Type" :> Str("application/json")),
                            body |-> Obj([token |-> Str(token)])]>>
            /\ Await("cli-auth.exchange", Str(token))
            /\ UNCHANGED <<stderr, configFile>>
    /\ UNCHANGED <<client, answers, env, argv, skillDir>>

\* part_001 `login`: the fetch() of the exchange settles with f.  A
\* response that is ok and parses to an object is saved at once with
\* saveConfig({ apiKey: data.apiKey }); data.apiKey.slice(0, 20) of the
\* next lines throws unless the key is a string.  Every throw lands in the
\* inner catch block: three lines on standard error and process.exit(1).
Exchanged(f) ==
    LET saved == /\ f.kind = "response"
                 /\ f.parsed
                 /\ ResponseOk(f.status)
                 /\ ~IsNullish(f.body)
        shown == saved /\ Get(f.body, "apiKey").t = "string"
    IN  /\ cpc = "awaiting"
        /\ argv.command = "login"
        /\ answers' = Append(answers, f)
        /\ pc' = "idle"
        /\ outcome' = IF shown THEN Returned(f.body) ELSE Threw(NullReadError)
        /\ configFile' = IF saved
                         THEN SaveConfig(Obj([apiKey |->
                                                  Get(f.body, "apiKey")]))
                         ELSE configFile
        /\ stdout' = stdout
                       \o IF saved
                          THEN <<Line("Authentication successful!",
                                      Undefined)>>
                          ELSE <<>>
                       \o IF shown
                          THEN <<Line("API Key:", Get(f.body, "apiKey")),
                                 Line("Saved to:", Str("config.json"))>>
                          ELSE <<>>
        /\ IF shown
           THEN /\ Exit(0)
                /\ UNCHANGED stderr
           ELSE Fail(Failure(<<Line("Authentication failed:", Undefined),
                               Line("Try again:", Undefined),
                               Line("$ clawget login", Undefined)>>, 1))
        /\ UNCHANGED <<client, cur, issued, env, argv, stdin, skillDir>>

\* Standard input ends while a readline interface is open on it: the
\* interface closes without its question having been answered, and with
\* nothing left to wait for the process ends.
EndOfInput ==
    /\ cpc = "reading"
    /\ Exit(0)
    /\ UNCHANGED <<client, pc, cur, issued, answers, outcome, configFile,
                   env, argv, stdout, stderr, stdin, skillDir>>

\* How the backend can settle the call of `op` a command awaits: as the
\* library's calls can.  For
\* `login` an answer can carry the API key the token is exchanged for;
\* for `install` the answers that succeed carry the listing the command
\* asks for and purchase lists with and without it, bare and enveloped.
Answers(a, op) ==
    LET known == FetchResults(op)
        listing == Obj([id |-> Str("listing-1"), slug |-> Str("skill-1"),
                        title |-> Str("Skill One")])
        own == Obj([id |-> Str("purchase-2"), licenseKey |-> Str("LK-1"),
                    skill |-> Obj([id |-> Str("listing-1"),
                                   slug |-> Str("skill-1")])])
        other == Obj([id |-> Str("purchase-3"), licenseKey |-> Null,
                      skill |-> Obj([id |-> Str("listing-2"),
                                     slug |-> Str("skill-2")])])
        bare == CHOOSE p \in PurchasePool : TRUE
    IN  IF a.command = "login"
        THEN known \cup {Answered(s, Obj([apiKey |-> Str("key-B"),
                                          permissions |-> Str("read,write")])) :
                            s \in Statuses}
        ELSE IF a.command # "install"
        THEN known
        ELSE {f \in known : ~f.parsed \/ ~ResponseOk(f.status)}
             \cup {Answered(200, b) :
                      b \in BothShapes(
                          IF op = "skills.get"
                          THEN {listing}
                          ELSE {Obj([purchases |-> Arr(q)]) :
                                   q \in {<<>>, <<own>>, <<other>>,
                                          <<other, own>>, <<bare, own>>,
                                          <<own, bare>>}})}

\* The call the handler awaits settles with f: the handler goes on to its
\* next call (wallet-legacy: wallet.deposit() after wallet.balance();
\* install: purchases.list() after skills.get()), renders the result, finishes the
\* installation or lands in its catch block.  cli.ts `register` then
\* creates a readline interface on standard input, under --json too, and
\* asks its question unless --json.
Respond(f) ==
    LET r == CallResult(cur.op, f)
        first == OperationResult(FirstOp(argv), Append(answers, f)[1]).value
        result == IF argv.command = "wallet-legacy"
                  THEN Obj([balance |-> first, deposit |-> r.value])
                  ELSE r.value
        end == Install(argv, first, r.value, skillDir)
        next == CASE argv.command = "wallet-legacy" /\ cur.op = "wallet.balance"
                         -> "wallet.deposit"
                  [] argv.command = "install" /\ cur.op = "skills.get"
                         -> "purchases.list"
                  [] OTHER -> "none"
    IN  /\ cpc = "awaiting"
        /\ argv.command # "login"
        /\ answers' = Append(answers, f)
        /\ IF r.kind = "threw"
           THEN /\ outcome' = r
                /\ pc' = "idle"
                /\ Fail(Catch(argv, InPurchase(argv), r.error))
                /\ UNCHANGED <<cur, issued, stdout, skillDir>>
           ELSE IF next # "none"
           THEN /\ issued' = Append(issued,
                                    CliRequest(client, next, Undefined))
                /\ Await(next, Undefined)
                /\ UNCHANGED <<stdout, stderr, skillDir>>
           ELSE IF argv.command = "install"
           THEN /\ outcome' = r
                /\ pc' = "idle"
                /\ stdout' = stdout \o end.out
                /\ stderr' = stderr \o end.err
                /\ skillDir' = end.dir
                /\ Exit(end.code)
                /\ UNCHANGED <<cur, issued>>
           ELSE IF argv.command = "register"
           THEN /\ outcome' = r
                /\ pc' = "idle"
                /\ stdout' = stdout \o Render(argv, result).lines
                                 \o IF argv.json
                                    THEN <<>>
                                    ELSE <<Line("Save API key now? (y/n):",
                                                Undefined)>>
                /\ cpc' = "reading"
                /\ exitCode' = 0
                /\ UNCHANGED <<cur, issued, stderr, skillDir>>
           ELSE /\ outcome' = r
                /\ pc' = "idle"
                /\ stdout' = stdout \o Render(argv, result).lines
                /\ IF Render(argv, result).error # Undefined
                   THEN Fail(Catch(argv, InPurchase(argv),
                                   Render(argv, result).error))
                   ELSE /\ Exit(0)
                        /\ UNCHANGED stderr
                /\ UNCHANGED <<cur, issued, skillDir>>
        /\ UNCHANGED <<client, configFile, env, argv, stdin>>

\* The process is gone: of everything it held only the config file is
\* left, and the shell is ready for the next command line.
ProcessGone ==
    /\ cpc = "exited"
    /\ client' = NoClient
    /\ pc' = "idle"
    /\ cur' = [op |-> "none", options |-> Undefined]
    /\ issued' = <<>>
    /\ answers' = <<>>
    /\ outcome' = NoOutcome
    /\ env' = Undefined
    /\ argv' = [cli |-> "none", command |-> "none"]
    /\ cpc' = "shell"
    /\ stdout' = <<>>
    /\ stderr' = <<>>
    /\ stdin' = <<>>
    /\ exitCode' = 0
    /\ UNCHANGED <<configFile, skillDir>>

CliInit ==
    /\ client = NoClient
    /\ pc = "idle"
    /\ cur = [op |-> "none", options |-> Undefined]
    /\ issued = <<>>
    /\ answers = <<>>
    /\ outcome = NoOutcome
    /\ configFile \in ConfigFiles
    /\ NoProcess
    /\ skillDir \in {"absent", "old"}

CliNext ==
    \/ \E cli \in Clis : \E key \in {"key-A", "key-C"} : \E e \in EnvKeys :
          Auth(cli, key, e)
    \/ \E json \in BOOLEAN : \E e \in EnvKeys : CliRegister(json, e)
    \/ \E opened \in BOOLEAN : \E e \in EnvKeys : Login(opened, e)
    \/ \E data \in StdinData : Prompt(data)
    \/ /\ cpc = "awaiting"
       /\ \E f \in Answers(argv, cur.op) : Exchanged(f)
    \/ EndOfInput
    \/ \E input \in UnknownCommands : \E e \in EnvKeys :
          UnknownCommand(input, e)
    \/ \E a \in Invocations : \E e \in EnvKeys : Command(a, e)
    \/ \E data \in StdinData : Confirm(data)
    \/ /\ cpc = "awaiting"
       /\ \E f \in Answers(argv, cur.op) : Respond(f)
    \/ ProcessGone

CliSpec == CliInit /\ [][CliNext]_vars

(***************************************************************************)
(* Properties.                                                             *)
(***************************************************************************)
\* The operations whose exchanges go through request().
ViaRequest == SimpleOps \cup {"skills.create"}

C3_TransportAndParseFailuresWrapped ==
    (cur.op \in ViaRequest /\ answers # <<>>) =>
        LET f == answers[Len(answers)]
        IN  (f.kind = "rejected" \/ (f.kind = "response" /\ ~f.parsed)) =>
                /\ pc = "idle"
                /\ outcome.kind = "threw"
                /\ outcome.error.name = "ClawgetError"
                /\ outcome.error.statusCode = Undefined
                /\ outcome.error.message = f.error.message

\* C3 witness: a 2xx answer whose body is not JSON made wallet.balance throw.
C3_Witness ==
    /\ cur.op = "wallet.balance"
    /\ answers # <<>>
    /\ answers[1].kind = "response"
    /\ ~answers[1].parsed
    /\ answers[1].status = 200
    /\ outcome.kind = "threw"
    /\ outcome.error.message.v = "Unexpected token < in JSON at position 0"

\* C4 (as claimed): for any 2xx JSON object body, skills.list returns an
\* object whose `skills` is an array and whose `pagination` has the five
\* fields page, limit, total, totalPages and hasMore, none undefined.
C4_Claimed_PaginationTotal ==
    (cur.op = "skills.list" /\ answers # <<>>) =>
        LET f == answers[1]
        IN  (f.kind = "response" /\ f.parsed /\ f.status \in 200..299
                /\ f.body.t = "object") =>
                /\ outcome.kind = "returned"
                /\ outcome.value.v["skills"].t = "array"
                /\ outcome.value.v["pagination"].t = "object"
                /\ \A k \in {"page", "limit", "total", "totalPages", "hasMore"} :
                       /\ k \in DOMAIN outcome.value.v["pagination"].v
                       /\ outcome.value.v["pagination"].v[k] # Undefined

\* C5: skills.list returns {skills: L, pagination: P} both for the bare 2xx
\* body {listings: L, pagination: P} and for the enveloped body
\* {success: true, data: {listings: L, pagination: P}}; when listings and
\* pagination are both absent it returns exactly {skills: [], pagination:
\* {page: 1, limit: 10, total: 0, totalPages: 0, hasMore: false}}.
C5_BareAndEnvelopedAgree ==
    (cur.op = "skills.list" /\ answers # <<>>) =>
        LET f == answers[1]
        IN  (f.kind = "response" /\ f.parsed /\ f.status \in 200..299) =>
                /\ \A l \in {Arr(q) : q \in SeqsUpTo(SkillPool, MaxItems)} :
                   \A p \in {EmptyObj, Obj([page |-> Num(2), total |-> Num(7)]),
                             FullPagination} :
                       f.body \in {Obj([listings |-> l, pagination |-> p]),
                                   Obj([success |-> Bool(TRUE),
                                        data |-> Obj([listings |-> l,
                                                      pagination |-> p])])}
                       => outcome = Returned(Obj([skills |-> l, pagination |-> p]))
                /\ f.body \in {EmptyObj,
                               Obj([success |-> Bool(TRUE), data |-> EmptyObj])}
                       => outcome =
                            Returned(Obj([skills |-> Arr(<<>>),
                                          pagination |->
                                              Obj([page |-> Num(1),
                                                   limit |-> Num(10),
                                                   total |-> Num(0),
                                                   totalPages |-> Num(0),
                                                   hasMore |-> Bool(FALSE)])]))

\* C5 witness: skills.list has returned on an enveloped body with one
\* listing and a full pagination.
C5_Witness ==
    /\ cur.op = "skills.list"
    /\ answers = <<Answered(200,
                     Obj([success |-> Bool(TRUE),
                          data |-> Obj([listings |->
                                            Arr(<<Obj([id |-> Str("skill-1")])>>),
                                        pagination |-> FullPagination])]))>>
    /\ outcome.kind = "returned"

\* C6 (as claimed): skills.list, categories.list and purchases.list return
\* their collection under the documented key (skills, categories,
\* purchases), and purchases.list a pagination object, when the 2xx body is
\* the bare payload, when it is wrapped in {success, data}, and when it
\* omits pagination.
C6_Claimed_ListsUnwrapped ==
    (cur.op \in {"skills.list", "categories.list", "purchases.list"}
        /\ answers # <<>>) =>
        LET f == answers[1]
            key == CASE cur.op = "skills.list"     -> "skills"
                     [] cur.op = "categories.list" -> "categories"
                     [] cur.op = "purchases.list"  -> "purchases"
            sent == CASE cur.op = "skills.list"     -> "listings"
                      [] cur.op = "categories.list" -> "categories"
                      [] cur.op = "purchases.list"  -> "purchases"
            payload == IF "data" \in DOMAIN f.body.v THEN f.body.v["data"]
                       ELSE f.body
        IN  (f.kind = "response" /\ f.parsed /\ f.status \in 200..299
                /\ f.body.t = "object" /\ payload.t = "object"
                /\ sent \in DOMAIN payload.v /\ payload.v[sent].t = "array") =>
                /\ outcome.kind = "returned"
                /\ Get(outcome.value, key) = payload.v[sent]
                /\ cur.op = "purchases.list" =>
                       Get(outcome.value, "pagination").t = "object"

C8_Claimed_CaseInsensitiveSlugOrName ==
    (cur.op = "skills.create" /\ answers # <<>>
        /\ ~Truthy(Get(cur.options, "categoryId"))
        /\ Truthy(Get(cur.options, "category"))) =>
        LET f == answers[1]
            name == Get(cur.options, "category").v
            data == Get(f.body, "data")
            cats == IF data.t = "object" /\ Get(data, "categories").t = "array"
                    THEN Get(data, "categories").v
                    ELSE <<>>
            same == {i \in DOMAIN cats :
                        \/ ToLowerCase(cats[i].v["slug"].v) = ToLowerCase(name)
                        \/ ToLowerCase(cats[i].v["name"].v) = ToLowerCase(name)}
        IN  (f.kind = "response" /\ f.parsed /\ f.status \in 200..299
                /\ f.body.t = "object" /\ Cardinality(same) = 1) =>
                \A i \in same :
                    /\ Len(issued) = 2
                    /\ issued[2].method = "POST"
                    /\ issued[2].body.v["categoryId"] = cats[i].v["id"]

\* C8 (amended): in skills.create the category name is matched against the
\* categories at data.categories of the lookup's 2xx body by exact equality
\* with the slug or by equality with the name ignoring letter case; the id
\* of the first match in the lookup's order is the categoryId of the POST
\* /skills body, and with no match no POST is issued.
C8_SlugExactNameCaseInsensitive ==
    (cur.op = "skills.create" /\ answers # <<>>
        /\ ~Truthy(Get(cur.options, "categoryId"))
        /\ Truthy(Get(cur.options, "category"))) =>
        LET f == answers[1]
            name == Get(cur.options, "category").v
            data == Get(f.body, "data")
            cats == IF data.t = "object" /\ Get(data, "categories").t = "array"
                    THEN Get(data, "categories").v
                    ELSE <<>>
            hits == {i \in DOMAIN cats :
                        \/ cats[i].v["slug"].v = name
                        \/ ToLowerCase(cats[i].v["name"].v) = ToLowerCase(name)}
        IN  (f.kind = "response" /\ f.parsed /\ f.status \in 200..299
                /\ f.body.t = "object") =>
                IF hits = {}
                THEN /\ Len(issued) = 1
                     /\ outcome.kind = "threw"
                ELSE /\ Len(issued) = 2
                     /\ issued[2].method = "POST"
                     /\ issued[2].url = client.baseUrl.v \o "/skills"
                     /\ \E i \in hits :
                           /\ \A j \in hits : i <= j
                           /\ issued[2].body.v["categoryId"] = cats[i].v["id"]

\* C8 witness: 'DATA' matched the name of category 'Data', listed second,
\* and its id went out in the POST /skills body.
C8_Witness ==
    /\ cur.op = "skills.create"
    /\ Get(cur.options, "category") = Str("DATA")
    /\ Get(cur.options, "categoryId") = Undefined
    /\ answers # <<>>
    /\ answers[1].parsed
    /\ Get(Get(answers[1].body, "data"), "categories").t = "array"
    /\ Len(Get(Get(answers[1].body, "data"), "categories").v) = 2
    /\ Len(issued) = 2
    /\ issued[2].method = "POST"
    /\ issued[2].body.v["categoryId"] = Str("cat-2")

\* C9 (as claimed): wallet.deposit returns the backend's 2xx body with
\* chain and currency as the backend supplied them, 'TRON' and 'USDT' only
\* where the backend supplied none, and every other field unchanged.
C9_Claimed_DepositDefaultsOnlyWhenOmitted ==
    (cur.op = "wallet.deposit" /\ answers # <<>>) =>
        LET f == answers[1]
            supplied(k) == k \in DOMAIN f.body.v /\ Truthy(f.body.v[k])
        IN  (f.kind = "response" /\ f.parsed /\ f.status \in 200..299
                /\ f.body.t = "object") =>
                /\ outcome.kind = "returned"
                /\ Get(outcome.value, "chain") =
                       IF supplied("chain") THEN f.body.v["chain"]
                       ELSE Str("TRON")
                /\ Get(outcome.value, "currency") =
                       IF supplied("currency") THEN f.body.v["currency"]
                       ELSE Str("USDT")
                /\ \A k \in DOMAIN f.body.v \ {"chain", "currency"} :
                       Get(outcome.value, k) = f.body.v[k]

SavedKey ==
    IF LoadConfig(configFile).t = "object"
    THEN Get(LoadConfig(configFile), "apiKey")
    ELSE Undefined

\* A process of a command that calls the client has got past getClient.
HasClient == argv \in Invocations /\ client # NoClient

\* C11 (as claimed): whenever a command has built its client, the client's
\* API key is the value of CLAWGET_API_KEY if that is set and not empty,
\* and the key saved in the config file only otherwise.
C11_Claimed_EnvOverridesConfig ==
    HasClient =>
        client.apiKey = IF Truthy(env) THEN env ELSE SavedKey

\* The getClient message that tells the user how to supply a key is on
\* standard error.
RemediationPrinted ==
    \E i \in DOMAIN stderr :
        stderr[i].label \in {"No API key found",
                             "No API key found. Run: clawget auth <api-key>"}

\* C12 (as claimed): a command that requires authentication, run with no
\* key in CLAWGET_API_KEY and none in the config file, exits with code 1,
\* has printed the remediation message and has issued no HTTP request.
C12_Claimed_NoKeyExitsOneWithRemediation ==
    (/\ cpc = "exited"
     /\ argv \in Invocations
     /\ RequiresAuth(argv)
     /\ ~Truthy(env)
     /\ ~Truthy(SavedKey))
    => (/\ exitCode = 1
        /\ RemediationPrinted
        /\ issued = <<>>)

\* A process of a command that calls the client has ended.
Ended == cpc = "exited" /\ argv \in Invocations

\* C13 (as claimed, for the invocations that succeed): when a command run
\* with --json has ended with exit code 0, its standard output is exactly
\* one JSON value and nothing else; tips, progress and diagnostics are not
\* on standard output.
C13_Claimed_JsonStdoutIsOneJsonValue ==
    (Ended /\ argv.json /\ exitCode = 0) =>
        /\ Len(stdout) = 1
        /\ stdout[1].kind = "json"

\* The { error: true, code, message } object of machine-mode errors.
IsErrorObject(chunk) ==
    /\ chunk.kind = "json"
    /\ chunk.value.t = "object"
    /\ {"error", "code", "message"} \subseteq DOMAIN chunk.value.v
    /\ chunk.value.v["error"] = Bool(TRUE)

\* C14 (as claimed): when a command run with --json has ended because its
\* client call failed, all it has written, on either stream, is one JSON
\* object with error: true, a code and a message, and its exit code is
\* not 0; a purchase refused for insufficient balance is no exception.
C14_Claimed_JsonFailureIsOneErrorObject ==
    (Ended /\ argv.json /\ outcome.kind = "threw") =>
        /\ Len(stdout \o stderr) = 1
        /\ IsErrorObject((stdout \o stderr)[1])
        /\ exitCode # 0

\* The backend refuses the purchase: 402 {"error": "insufficient balance"}.
InsufficientBalance ==
    Answered(402, Obj([error |-> Str("insufficient balance")]))

\* C15 (as claimed): when the purchase request of a buy command is answered
\* 402 {"error": "insufficient balance"}, the process exits with code 3.
C15_Claimed_InsufficientBalanceExitsThree ==
    (Ended /\ cur.op = "skills.buy" /\ answers = <<InsufficientBalance>>)
        => exitCode = 3

\* C16 (as claimed): when a client call of a command fails at transport
\* level (fetch rejects: DNS failure, timeout), the process exits with
\* code 2.
C16_Claimed_TransportFailureExitsTwo ==
    (Ended /\ answers # <<>> /\ answers[Len(answers)].kind = "rejected")
        => exitCode = 2

\* The purchase commands.
IsPurchase == argv \in Invocations /\ argv.command \in {"buy", "skills buy"}

\* The user answered the confirmation prompt with 'y' or 'yes'.
Affirmed == stdin # <<>> /\ ~Cancelled(Answer(stdin[1]))

\* C17 (as claimed): a purchase command issues its purchase request only
\* after an affirmative answer to the confirmation prompt, unless --yes or
\* --json is given, and then it reads nothing from standard input; after
\* any other answer it ends with no purchase request issued.
C17_Claimed_PurchaseOnlyAfterConfirmation ==
    IsPurchase =>
        /\ issued # <<>> => (argv.yes \/ argv.json \/ Affirmed)
        /\ (argv.yes \/ argv.json) => stdin = <<>>
        /\ (stdin # <<>> /\ ~Affirmed) => (cpc = "exited" /\ issued = <<>>)


\* Whether b can be made from a with at most k single-character edits
\* (insertion, deletion, substitution): the definition of edit distance,
\* stated without the matrix of levenshtein.
RECURSIVE Within(_, _, _)
Within(a, b, k) ==
    IF k < 0 THEN FALSE
    ELSE IF a = <<>> THEN Len(b) <= k
    ELSE IF b = <<>> THEN Len(a) <= k
    ELSE IF Head(a) = Head(b) THEN Within(Tail(a), Tail(b), k)
    ELSE \/ Within(Tail(a), b, k - 1)
         \/ Within(a, Tail(b), k - 1)
         \/ Within(Tail(a), Tail(b), k - 1)

\* The known commands within k edits of the input.
KnownWithin(input, k) ==
    {c \in {AvailableCommands[i] : i \in DOMAIN AvailableCommands} :
        Within(Spelling(input), Spelling(c), k)}

\* The positions of standard error that hold a suggestion
\* ("  clawget <suggestion>").
Suggested == {i \in DOMAIN stderr : stderr[i].label = "clawget"}

\* The position of standard error that lists the known command c, 0 when
\* there is none.
Listed(c) ==
    LET at == {i \in DOMAIN stderr : stderr[i] = Line("command", Str(c))}
    IN  IF at = {} THEN 0 ELSE CHOOSE i \in at : TRUE

\* The handler of unknown commands has run.
UnknownHandled == cpc = "exited" /\ argv.command \in UnknownCommands

\* C18: after a command name the program does not know, it suggests nothing
\* when every known command is more than 2 edits away; otherwise it
\* suggests exactly one known command, which is within 2 edits and at the
\* least edit distance any known command has.  For 'serach' that is
\* 'search'.  After the suggestion it lists every known command, and it
\* exits with code 1.
C18_SuggestsNearestWithinTwo ==
    UnknownHandled =>
        /\ KnownWithin(argv.command, 2) = {} => Suggested = {}
        /\ KnownWithin(argv.command, 2) # {} =>
              \E i \in Suggested :
                  /\ Suggested = {i}
                  /\ stderr[i].value.t = "string"
                  /\ stderr[i].value.v \in KnownWithin(argv.command, 2)
                  /\ \A k \in 0..1 :
                        KnownWithin(argv.command, k) # {} =>
                            stderr[i].value.v \in KnownWithin(argv.command, k)
        /\ argv.command = "serach" =>
              \E i \in Suggested : stderr[i].value = Str("search")
        /\ \A n \in DOMAIN AvailableCommands :
              /\ Listed(AvailableCommands[n]) # 0
              /\ \A i \in Suggested : i < Listed(AvailableCommands[n])
        /\ stdout = <<>>
        /\ issued = <<>>
        /\ exitCode = 1

\* 'serach' was entered and 'search' was suggested.
C18_Witness_SerachSuggestsSearch ==
    /\ UnknownHandled
    /\ argv.command = "serach"
    /\ \E i \in Suggested : stderr[i].value = Str("search")
    /\ exitCode = 1

\* An input more than 2 edits from every known command got no suggestion.
C18_Reached_NoSuggestion ==
    /\ UnknownHandled
    /\ KnownWithin(argv.command, 2) = {}
    /\ KnownWithin(argv.command, 3) # {}
    /\ Suggested = {}


\* The config file is missing or corrupt: there is none, its text does not
\* parse, or it parses to something that is no JSON object.
MissingOrCorrupt ==
    \/ configFile = NoFile
    \/ JsonParse(configFile.text).kind = "threw"
    \/ JsonParse(configFile.text).value.t # "object"

\* The process ended before any request on a TypeError of reading a
\* property of null, reported by the command's catch block.
CrashedOnConfig ==
    /\ cpc = "exited"
    /\ issued = <<>>
    /\ \E i \in DOMAIN stderr :
          \/ stderr[i].value = NullReadError.message
          \/ /\ IsErrorObject(stderr[i])
             /\ stderr[i].value.v["message"] = JsonValue(NullReadError.message)

\* The program of this process takes a key from CLAWGET_API_KEY.
EnvSupplies == argv.cli = "part_001" /\ Truthy(env)

\* C19 (as claimed): with a missing or corrupt config file a command does
\* not crash on reading it and resolves the key as if none were saved: a
\* client, if one is built, has the key of the environment; a command
\* that requires authentication and gets no key from the environment ends
\* with the remediation message, exit code 1 and no request; and a
\* command that has a key from the environment gets as far as its
\* confirmation prompt or its request.
C19_Claimed_CorruptConfigIsEmpty ==
    (argv \in Invocations /\ cpc # "shell" /\ MissingOrCorrupt) =>
        /\ ~CrashedOnConfig
        /\ HasClient => (EnvSupplies /\ client.apiKey = env)
        /\ (RequiresAuth(argv) /\ ~EnvSupplies) =>
              (/\ cpc = "exited"
               /\ exitCode = 1
               /\ RemediationPrinted
               /\ issued = <<>>)
        /\ EnvSupplies =>
              (HasClient /\ (cpc = "prompt" \/ stdin # <<>> \/ issued # <<>>))


\* C20 (as claimed): the `search` command run with no key in
\* CLAWGET_API_KEY and none saved in the config file does not fail for
\* missing credentials: it issues the skills.list request.
C20_Claimed_SearchWorksWithoutKey ==
    (/\ argv \in Invocations
     /\ argv.command = "search"
     /\ cpc # "shell"
     /\ ~Truthy(env)
     /\ ~Truthy(SavedKey)
     /\ configFile # File("null"))
    => (/\ cur.op = "skills.list"
        /\ issued # <<>>
        /\ issued[1].method = "GET")


\* defaults.search.limit of the config file, undefined when it has none.
ConfiguredLimit ==
    OptGet(OptGet(Get(LoadConfig(configFile), "defaults"), "search"), "limit")

\* C21 (as claimed): the skills.list request of `search` asks for the
\* --limit value when --limit is given, otherwise for
\* defaults.search.limit of the config file when that is set, otherwise
\* for 10.
C21_Claimed_LimitFlagThenConfigThenTen ==
    (argv \in Invocations /\ argv.command = "search" /\ issued # <<>>) =>
        Get(issued[1].query, "limit") =
            IF argv.limitGiven THEN ParseInt(argv.limit)
            ELSE IF Truthy(ConfiguredLimit) THEN ConfiguredLimit
            ELSE Num(10)


(***************************************************************************)
(* Properties of the client library, continued (under Spec).               *)
(***************************************************************************)
\* The exchange that settled with f failed: fetch() rejected, the body did
\* not parse, or the status is not 2xx.
FailedExchange(f) ==
    f.kind = "rejected" \/ ~f.parsed \/ ~ResponseOk(f.status)

\* C22: a client operation has at most one exchange in flight, and has one
\* in flight exactly while it is awaiting; it issues no request after an
\* exchange that failed.  Every operation but skills.create issues exactly
\* one request.  skills.create issues none when it is given neither
\* categoryId nor category, exactly one, POST /skills, when it is given
\* categoryId, and otherwise GET /categories first and POST /skills second,
\* the second only after the lookup succeeded and resolved the category.
C22_OneExchangeAtATimeNoRetry ==
    /\ Len(issued) = Len(answers) + (IF pc = "idle" THEN 0 ELSE 1)
    /\ \A i \in DOMAIN answers : FailedExchange(answers[i]) => Len(issued) = i
    /\ cur.op \in SimpleOps \cup DirectOps \cup {"register", "request"} =>
          Len(issued) = 1
    /\ cur.op = "skills.create" =>
          LET categoryId == Get(cur.options, "categoryId")
              category == Get(cur.options, "category")
          IN  /\ (~Truthy(categoryId) /\ ~Truthy(category)) => issued = <<>>
              /\ Truthy(categoryId) =>
                    /\ Len(issued) = 1
                    /\ issued[1].method = "POST"
                    /\ issued[1].url = client.baseUrl.v \o "/skills"
              /\ (~Truthy(categoryId) /\ Truthy(category)) =>
                    /\ Len(issued) \in 1..2
                    /\ issued[1].method = "GET"
                    /\ issued[1].url = client.baseUrl.v \o "/categories"
                    /\ Len(issued) = 2 =>
                          /\ issued[2].method = "POST"
                          /\ issued[2].url = client.baseUrl.v \o "/skills"
                          /\ ~FailedExchange(answers[1])
                          /\ ResolveCategory(cur.options, answers[1].body).kind
                                 = "returned"

\* C22 witness: skills.create given only a category name has looked it up,
\* posted the skill and returned.
C22_Witness ==
    /\ cur.op = "skills.create"
    /\ ~Truthy(Get(cur.options, "categoryId"))
    /\ Len(issued) = 2
    /\ Len(answers) = 2
    /\ outcome.kind = "returned"


C24_Claimed_EveryFailureIsClawgetError ==
    (pc = "idle" /\ outcome.kind = "threw") =>
        /\ outcome.error.name = "ClawgetError"
        /\ (/\ cur.op = "register"
            /\ answers[1].kind = "response"
            /\ answers[1].parsed
            /\ ~ResponseOk(answers[1].status)) =>
               /\ outcome.error.statusCode = Num(answers[1].status)
               /\ outcome.error.response = answers[1].body

(***************************************************************************)
(* Properties of the command-line tool, continued (under CliSpec).         *)
(***************************************************************************)
\* C25: once a client call awaited by a command has failed (its promise
\* rejected), the invocation ends with that step: it issues no further
\* request, leaves the config file and the skill directory as they were,
\* and exits with a non-zero code.
C25_FailedCallEndsInvocation ==
    [][(/\ cpc = "awaiting"
        /\ argv.command # "login"
        /\ Len(answers') = Len(answers) + 1
        /\ CallResult(cur.op, answers'[Len(answers')]).kind = "threw")
       => (/\ cpc' = "exited"
           /\ exitCode' # 0
           /\ issued' = issued
           /\ configFile' = configFile
           /\ skillDir' = skillDir)]_vars

\* C25, its case: `install` over an existing directory whose skills.get
\* failed has ended with one request issued, none for purchases.list, the
\* directory as it was and a non-zero exit code.
C25_Witness_InstallStopsAfterFailedGet ==
    /\ cpc = "exited"
    /\ argv.command = "install"
    /\ cur.op = "skills.get"
    /\ outcome.kind = "threw"
    /\ Len(issued) = 1
    /\ Len(answers) = 1
    /\ skillDir = "old"
    /\ exitCode # 0

\* The purchase list in `body`, bare or in the {success, data} envelope,
\* holds a purchase of the skill `skillId` names by id or by slug.
PurchaseListed(body, skillId) ==
    LET data == IF IsNullish(Get(body, "data")) THEN body ELSE Get(body, "data")
        list == Get(data, "purchases")
    IN  /\ IsList(list)
        /\ \E i \in DOMAIN list.v :
               \/ Get(Get(list.v[i], "skill"), "id") = skillId
               \/ Get(Get(list.v[i], "skill"), "slug") = skillId

\* C26 (as claimed): `install` changes the skill directory only when the
\* purchase list names the skill and the directory is absent or --force is
\* given; once both of its calls returned it otherwise exits with code 4
\* (not purchased) or 6 (directory exists) and leaves the directory as it
\* was.
C26_Claimed_InstallOnlyWhenPurchasedAndFree ==
    [][LET both == /\ cpc = "awaiting"
                   /\ argv.command = "install"
                   /\ cur.op = "purchases.list"
                   /\ CallResult(cur.op, answers'[Len(answers')]).kind
                          = "returned"
           owned == /\ both
                    /\ PurchaseListed(answers'[Len(answers')].body, argv.arg)
           free == skillDir = "absent" \/ argv.force
       IN  /\ skillDir' # skillDir => owned /\ free
           /\ (both /\ ~owned) => (exitCode' = 4 /\ skillDir' = skillDir)
           /\ (owned /\ ~free) => (exitCode' = 6 /\ skillDir' = skillDir)]_vars

\* The --rating arguments that are integers between 1 and 5.
ValidRatings == {Str("1"), Str("2"), Str("3"), Str("4"), Str("5")}

\* C27 (as claimed): `reviews create` with a --rating that is not an
\* integer between 1 and 5 issues no request and exits with code 1.
C27_Claimed_ReviewOnlyForRatingOneToFive ==
    (argv.command = "reviews create" /\ argv.rating \notin ValidRatings)
        => (issued = <<>> /\ (cpc = "exited" => exitCode = 1))

C29_Claimed_ConfigWrittenOnlyBySuccessfulAuthLoginRegister ==
    [][configFile' # configFile
          => /\ cpc' = "exited"
             /\ exitCode' = 0
             /\ \/ argv'.command = "auth"
                \/ argv'.command = "login" /\ outcome'.kind = "returned"
                \/ /\ argv'.command = "register"
                   /\ ~Cancelled(Answer(stdin'[Len(stdin')]))]_vars

\* C30 (as claimed): under --json no process holds a readline interface
\* on standard input.
C30_Claimed_MachineModeHoldsNoReader ==
    (cpc # "shell" /\ argv.json) => cpc # "reading"

====
